---- MODULE Spec2Model ----
(***************************************************************************)
(* Model of the pq-smart-wallet demo wallet: the operation lifecycle of    *)
(* demo/wallet/src/App.tsx (session_request handler, handleApprove,        *)
(* handleReject), the relay client of demo/wallet/src/lib/bundler.ts and   *)
(* the builder of demo/wallet/src/lib/userop.ts.                           *)
(*                                                                         *)
(* Every async handler is cut at its awaits: one action per continuation,  *)
(* the position of each running handler kept in its task record.  The      *)
(* nonce authority, the signer, the relay and the session transport are    *)
(* the environment: each pending call settles with a nondeterministic     *)
(* outcome.                                                                *)
(***************************************************************************)
EXTENDS Integers, Sequences, FiniteSets, Bags, TLC

VARIABLES
    wk,               \* walletKitRef.current is set              (App.tsx:40)
    pendingTx,        \* useState<PendingTx | null>               (App.tsx:29)
    txStatus,         \* useState<TxStatus>                       (App.tsx:30)
    txError,          \* useState<string>                         (App.tsx:31)
    signerMode,       \* useState<SignerMode>                     (App.tsx:32)
    seedSignerReady,  \* useState(isSignerConfigured())           (App.tsx:34)
    snapConnected,    \* useState(false)                          (App.tsx:35)
    cachedKeypair,    \* module variable of the seed signer       (part_000:9)
    nextId,           \* number of session requests delivered so far
    tasks,            \* the running / finished handleApprove invocations
    rejects,          \* handleReject invocations awaiting respondSessionRequest
    responses,        \* per request id, the respondSessionRequest calls made
    calls,            \* per request id, the calls made to authority, signer, relay
    relayOps,         \* the relay: accepted operations and the receipts it served
    call,             \* the library function called on its own, and its argument
    ret,              \* what that call and the calls after it returned or threw
    publicKeys,       \* mapping(address => bytes) of the validator module
                      \*                            (PQValidatorModule.sol:21)
    snapState,        \* what snap_manageState holds for the snap (state.ts:22-52)
    snapReqs          \* the snap's RPC requests: running and settled handlers

appVars == <<wk, pendingTx, txStatus, txError, signerMode, seedSignerReady,
             snapConnected, cachedKeypair, nextId, tasks, rejects, responses,
             calls, relayOps>>
unchangedCodec == <<call, ret>>
unchangedRemote == <<publicKeys, snapState, snapReqs>>
vars == <<appVars, call, ret, publicKeys, snapState, snapReqs>>

---------------------------------------------------------------------------
\* Bounds of the model.

\* session requests the dapp sends
MaxRequests == 2
\* clicks on Reject per request
MaxRejectClicks == 1
\* call counters saturate here
CallCap == 2

---------------------------------------------------------------------------
\* Program constants.

\* waitForReceipt's default budget, bundler.ts:40
timeoutMs == 30000
\* the sleep between two polls, bundler.ts:66
pollIntervalMs == 1000
\* error code of handleReject and of unsupported methods, App.tsx:333, 102
USER_REJECTED == 4001
\* error code of handleApprove's catch block, App.tsx:316
PIPELINE_ERROR == -32000

Ids == 1..MaxRequests
\* event.topic of the request with this id: two paired dapps take turns
SessionTopic(id) == IF id % 2 = 1 THEN "topicA" ELSE "topicB"
NoTx == [id |-> 0, topic |-> "none"]
NoError == ""

\* A thrown value: its .message ("" when it has none) and String(err).
Err(m, s) == [message |-> m, text |-> s]
NoErr == Err("", "")
NonceErrors == {Err("getNonce reverted", "Error: getNonce reverted")}
SnapSignErrors ==
    { Err("Snap returned an invalid signature", "Error: Snap returned an invalid signature"),
      Err("", "request rejected") }
SeedSignErrors ==
    {Err("Signer not initialized. Load a 32-byte ML-DSA seed first.",
         "Error: Signer not initialized. Load a 32-byte ML-DSA seed first.")}
\* fetch(BUNDLER_RPC) rejected, bundler.ts:15 and 45
FetchErrors == {Err("Failed to fetch", "TypeError: Failed to fetch")}
\* result.error.message of a structured error reply of the relay
RelayErrorMessages == {"AA21 didn't pay prefund"}
\* bundler.ts:28-30:  throw new Error(`Bundler error: ${result.error.message}`)
BundlerError(message) ==
    Err("Bundler error: " \o message, "Error: Bundler error: " \o message)
SubmitErrors == {BundlerError(m) : m \in RelayErrorMessages} \cup FetchErrors
PollErrors == {Err("Failed to fetch", "TypeError: Failed to fetch")}
TimeoutError ==
    Err("UserOp receipt not found after 30000ms", "Error: UserOp receipt not found after 30000ms")
RespondErrors == {Err("No matching key", "Error: No matching key")}

\* mutant: the catch block reports String(err)
ErrMessageText(err) == err.text

\* formatting of a caught value, App.tsx:305:  err?.message || String(err)
ErrMessage(err) == IF err.message # "" THEN err.message ELSE err.text

---------------------------------------------------------------------------
\* The relay's receipts.  A receipt carries the transaction hash in
\* receipt.transactionHash, at top level or nowhere.  relayOps keeps, per
\* accepted operation, the request it was built for, whether a receipt was
\* served for it and the hash that receipt carried.

NoHash == [kind |-> "none", op |-> 0]
UnknownHash == [kind |-> "unknown", op |-> 0]
TxOf(op) == [kind |-> "tx", op |-> op]
ReceiptShapes == {"nested", "top", "bare"}
RelayReceipt(op, shape) ==
    [ nested |-> IF shape = "nested" THEN TxOf(op) ELSE NoHash,
      top    |-> IF shape = "top" THEN TxOf(op) ELSE NoHash ]
\* the transaction hash a receipt carries, wherever it is
ReceiptCarries(r) == {r.nested, r.top} \ {NoHash}

\* mutant: only the top-level transactionHash is read
ReceiptTxHashTopOnly(r) == IF r.top # NoHash THEN r.top ELSE UnknownHash

\* bundler.ts:60: result.result.receipt?.transactionHash
\*                ?? result.result.transactionHash ?? 'unknown'
ReceiptTxHash(r) ==
    IF r.nested # NoHash THEN r.nested
    ELSE IF r.top # NoHash THEN r.top
    ELSE UnknownHash

\* bundler.ts:52: the operation id the receipt is asked for
PollOpId(task) == task.opHash

---------------------------------------------------------------------------
\* Responses to the session: wk.respondSessionRequest({topic, response}).

ResultResponse(tx, hash) ==
    [topic |-> tx.topic, kind |-> "result", code |-> 0, result |-> hash, message |-> ""]
ErrorResponse(tx, code, msg) ==
    [topic |-> tx.topic, kind |-> "error", code |-> code, result |-> NoHash, message |-> msg]
Respond(tx, r) == [responses EXCEPT ![tx.id] = Append(@, r)]

Min(a, b) == IF a < b THEN a ELSE b
Bump(id, f) == [calls EXCEPT ![id][f] = Min(@ + 1, CallCap)]

\* mutant: either signer being ready counts, whatever the mode
signerReadyEither == seedSignerReady \/ snapConnected

\* App.tsx:41
signerReady == IF signerMode = "seed" THEN seedSignerReady ELSE snapConnected

\* TxApproval.tsx:42, 80: the Approve and Reject buttons are rendered
isPending == txStatus = "idle" /\ pendingTx # NoTx

\* invocation t of handleApprove exists and is suspended at pc
At(t, pc) == t \in DOMAIN tasks /\ tasks[t].pc = pc

\* A handleApprove continuation is between setTxStatus('signing') and
\* setTxStatus('submitting') (App.tsx:274-281): no await separates them, so
\* no other callback runs there.
InSync == \E t \in DOMAIN tasks : tasks[t].pc = "signing"

---------------------------------------------------------------------------
\* The seed signer's module variable, part_000:9: undefined, or the keypair
\* ml_dsa65.keygen derived from a seed (part_000:15).
NoKeypair == [loaded |-> FALSE, seed |-> <<>>]
keygen(seed) == [loaded |-> TRUE, seed |-> seed]
\* part_000:18-20
isSignerConfigured == cachedKeypair.loaded

\* no library function is called on its own
NoCall == [fn |-> "none"]

\* The accounts that call the validator module.
Accounts == {"account1", "account2"}
\* bytes of length zero: the value of a mapping entry never written
NoKey == <<>>
\* state.ts:14-17; keypair: null is the record with stored = FALSE
NoSnapKeypair == [stored |-> FALSE, key |-> 0, nonce |-> 0]
DEFAULT_STATE == [keypair |-> NoSnapKeypair, version |-> 1]

\* The module as deployed and the snap as installed.
RemoteInit ==
    /\ publicKeys = [a \in Accounts |-> NoKey]
    /\ snapState = DEFAULT_STATE
    /\ snapReqs = <<>>

AppInit ==
    /\ wk = FALSE
    /\ pendingTx = NoTx
    /\ txStatus = "idle"
    /\ txError = NoError
    /\ signerMode = "seed"
    /\ seedSignerReady = FALSE
    /\ snapConnected = FALSE
    /\ cachedKeypair = NoKeypair
    /\ nextId = 0
    /\ tasks = <<>>
    /\ rejects = EmptyBag
    /\ responses = [i \in Ids |-> <<>>]
    /\ calls = [i \in Ids |-> [nonce |-> 0, sign |-> 0, submit |-> 0, poll |-> 0]]
    /\ relayOps = <<>>

Init ==
    /\ AppInit
    /\ RemoteInit
    /\ call = NoCall
    /\ ret = <<>>

---------------------------------------------------------------------------
\* Signer configuration (App.tsx:175-227, 128-157, 357, 372).

\* A seed string as typed: hex digits after the optional 0x, and whether
\* all of them are hex digits.
SeedInputs ==
    { [digits |-> 64, hex |-> TRUE], [digits |-> 63, hex |-> TRUE],
      [digits |-> 62, hex |-> TRUE], [digits |-> 64, hex |-> FALSE] }

\* configureSignerFromSeed succeeds: hexToBytesStrict accepts the string and
\* it decodes to 32 bytes.
SeedAccepted(seed) ==
    /\ seed.digits % 2 = 0
    /\ seed.hex
    /\ seed.digits \div 2 = 32

unchangedApp == <<wk, pendingTx, txStatus, txError>>
unchangedSigner == <<signerMode, seedSignerReady, snapConnected, cachedKeypair>>
unchangedPipeline == <<tasks, rejects, responses, calls, relayOps>>

InitWalletKit ==
    /\ ~InSync
    /\ ~wk
    /\ wk' = TRUE
    /\ UNCHANGED <<pendingTx, txStatus, txError, nextId>>
    /\ UNCHANGED unchangedSigner
    /\ UNCHANGED unchangedPipeline
    /\ UNCHANGED unchangedCodec
    /\ UNCHANGED unchangedRemote

SetSignerMode(m) ==
    /\ ~InSync
    /\ signerMode # m
    /\ signerMode' = m
    /\ UNCHANGED <<seedSignerReady, snapConnected, cachedKeypair, nextId>>
    /\ UNCHANGED unchangedApp
    /\ UNCHANGED unchangedPipeline
    /\ UNCHANGED unchangedCodec
    /\ UNCHANGED unchangedRemote

HandleLoadSeed(seed) ==
    /\ ~InSync
    /\ signerMode = "seed"
    /\ IF SeedAccepted(seed)
         THEN cachedKeypair' = keygen(seed) /\ seedSignerReady' = TRUE
         ELSE UNCHANGED <<cachedKeypair, seedSignerReady>>
    /\ UNCHANGED <<signerMode, snapConnected, nextId>>
    /\ UNCHANGED unchangedApp
    /\ UNCHANGED unchangedPipeline
    /\ UNCHANGED unchangedCodec
    /\ UNCHANGED unchangedRemote

\* handleConnectSnap and refreshSnapStatus end by setting snapConnected to
\* what the snap runtime answered.
SnapStatusSettled(connected) ==
    /\ ~InSync
    /\ signerMode = "snap"
    /\ snapConnected' = connected
    /\ UNCHANGED <<signerMode, seedSignerReady, cachedKeypair, nextId>>
    /\ UNCHANGED unchangedApp
    /\ UNCHANGED unchangedPipeline
    /\ UNCHANGED unchangedCodec
    /\ UNCHANGED unchangedRemote

---------------------------------------------------------------------------
\* The session_request handler (App.tsx:77-107).

SessionRequestSend(maxRequests) ==
    /\ ~InSync
    /\ wk
    /\ nextId < maxRequests
    /\ nextId' = nextId + 1
    /\ pendingTx' = [id |-> nextId + 1, topic |-> SessionTopic(nextId + 1)]
    /\ txStatus' = "idle"
    /\ txError' = NoError
    /\ UNCHANGED wk
    /\ UNCHANGED unchangedSigner
    /\ UNCHANGED unchangedPipeline
    /\ UNCHANGED unchangedCodec
    /\ UNCHANGED unchangedRemote

SessionRequestOther(maxRequests) ==
    /\ ~InSync
    /\ wk
    /\ nextId < maxRequests
    /\ nextId' = nextId + 1
    /\ LET event == [id |-> nextId + 1, topic |-> SessionTopic(nextId + 1)]
       IN  responses' = Respond(event, ErrorResponse(event, USER_REJECTED, "Unsupported method"))
    /\ UNCHANGED <<tasks, rejects, calls, relayOps>>
    /\ UNCHANGED unchangedApp
    /\ UNCHANGED unchangedSigner
    /\ UNCHANGED unchangedCodec
    /\ UNCHANGED unchangedRemote

---------------------------------------------------------------------------
\* handleReject (App.tsx:324-340).

\* the 'User rejected' responses request id has been sent
RejectsSent(id) ==
    Cardinality({k \in DOMAIN responses[id] : responses[id][k].message = "User rejected"})

\* The handler up to its await, App.tsx:325-335.  When the awaited call
\* will reject, nothing of the handler runs after it (there is no catch), so
\* only the calls that will resolve are kept in rejects.
HandleReject(resolves) ==
    /\ ~InSync
    /\ isPending
    /\ wk
    /\ RejectsSent(pendingTx.id) < MaxRejectClicks
    /\ responses' = Respond(pendingTx, ErrorResponse(pendingTx, USER_REJECTED, "User rejected"))
    /\ rejects' = IF resolves THEN rejects (+) SetToBag({pendingTx}) ELSE rejects
    /\ UNCHANGED <<tasks, calls, relayOps, nextId>>
    /\ UNCHANGED unchangedApp
    /\ UNCHANGED unchangedSigner
    /\ UNCHANGED unchangedCodec
    /\ UNCHANGED unchangedRemote

\* the awaited respondSessionRequest resolved: App.tsx:337-339
RejectSettled(tx) ==
    /\ ~InSync
    /\ BagIn(tx, rejects)
    /\ rejects' = rejects (-) SetToBag({tx})
    /\ pendingTx' = NoTx
    /\ txStatus' = "idle"
    /\ UNCHANGED <<wk, txError, nextId, tasks, responses, calls, relayOps>>
    /\ UNCHANGED unchangedSigner
    /\ UNCHANGED unchangedCodec
    /\ UNCHANGED unchangedRemote

---------------------------------------------------------------------------
\* handleApprove (App.tsx:241-321), buildUserOp (userop.ts:73-153),
\* submitUserOp (bundler.ts:11-33), waitForReceipt (bundler.ts:38-70).
\*
\* A task is one invocation.  tx and mode are the pendingTx and signerMode
\* its closure captured; pc is the await it is suspended at; st is the last
\* status it set; opHash is what submitUserOp returned; elapsed is
\* Date.now() - start while waitForReceipt runs; stage and err record the
\* throw that took it to the catch block.

NewTask(tx, mode) ==
    [ tx |-> tx, mode |-> mode, pc |-> "nonce", st |-> "building",
      opHash |-> 0, elapsed |-> 0, stage |-> "none", err |-> NoErr ]

\* mutant: the response is addressed to the request pending when it is sent
AddresseeCurrent(rec) == pendingTx

\* pendingTx as handleApprove's closure holds it (App.tsx:241, 294-296,
\* 311-314, 321): the request that was pending at the click
Addressee(rec) == rec.tx

\* The catch block, App.tsx:303-319, entered by task t (its record as left by
\* the throwing statement) with the thrown value e.
Catch(t, rec, stage, e) ==
    /\ txStatus' = "error"
    /\ txError' = ErrMessage(e)
    /\ responses' = Respond(Addressee(rec),
                            ErrorResponse(Addressee(rec), PIPELINE_ERROR, ErrMessage(e)))
    /\ tasks' = [tasks EXCEPT ![t] = [rec EXCEPT !.pc = "failed", !.st = "error",
                                                 !.stage = stage, !.err = e,
                                                 !.elapsed = 0]]

\* The guards and first statements, App.tsx:242-262, down to the nonce query
\* of userop.ts:99.
HandleApprove ==
    /\ ~InSync
    /\ isPending
    /\ wk
    /\ signerReady
    /\ txStatus' = "building"
    /\ calls' = Bump(pendingTx.id, "nonce")
    /\ tasks' = Append(tasks, NewTask(pendingTx, signerMode))
    /\ UNCHANGED <<wk, pendingTx, txError, nextId, rejects, responses, relayOps>>
    /\ UNCHANGED unchangedSigner
    /\ UNCHANGED unchangedCodec
    /\ UNCHANGED unchangedRemote

\* readContract resolved: the hash is computed and signFn called, userop.ts:126-139
NonceOk(t) ==
    /\ ~InSync
    /\ At(t, "nonce")
    /\ calls' = Bump(tasks[t].tx.id, "sign")
    /\ tasks' = [tasks EXCEPT ![t].pc = "sign"]
    /\ UNCHANGED <<nextId, rejects, responses, relayOps>>
    /\ UNCHANGED unchangedApp
    /\ UNCHANGED unchangedSigner
    /\ UNCHANGED unchangedCodec
    /\ UNCHANGED unchangedRemote

\* mutant: the signer is called before the nonce query is awaited
NonceFailSignsAnyway(t, e) ==
    /\ ~InSync
    /\ At(t, "nonce")
    /\ Catch(t, tasks[t], "build", e)
    /\ calls' = Bump(tasks[t].tx.id, "sign")
    /\ UNCHANGED <<wk, pendingTx, nextId, rejects, relayOps>>
    /\ UNCHANGED unchangedSigner
    /\ UNCHANGED unchangedCodec
    /\ UNCHANGED unchangedRemote

\* readContract rejected
NonceFail(t, e) ==
    /\ ~InSync
    /\ At(t, "nonce")
    /\ Catch(t, tasks[t], "build", e)
    /\ UNCHANGED <<wk, pendingTx, nextId, rejects, calls, relayOps>>
    /\ UNCHANGED unchangedSigner
    /\ UNCHANGED unchangedCodec
    /\ UNCHANGED unchangedRemote

\* App.tsx:274: setTxStatus('signing')
MarkSigning(t) ==
    /\ txStatus' = "signing"
    /\ tasks' = [tasks EXCEPT ![t].pc = "signing", ![t].st = "signing"]

\* signFn returned a signature.  The seed signer needs its keypair
\* (part_000:22-27); in snap mode getSnapInfo is awaited next (App.tsx:268-271).
SignOk(t) ==
    /\ ~InSync
    /\ At(t, "sign")
    /\ tasks[t].mode = "seed" => isSignerConfigured
    /\ IF tasks[t].mode = "snap"
         THEN /\ tasks' = [tasks EXCEPT ![t].pc = "snapinfo"]
              /\ UNCHANGED txStatus
         ELSE MarkSigning(t)
    /\ UNCHANGED <<wk, pendingTx, txError, nextId, rejects, responses, calls, relayOps>>
    /\ UNCHANGED unchangedSigner
    /\ UNCHANGED unchangedCodec
    /\ UNCHANGED unchangedRemote

\* signFn threw: the snap call failed, or the seed signer has no keypair
SignFail(t, e) ==
    /\ ~InSync
    /\ At(t, "sign")
    /\ \/ tasks[t].mode = "snap" /\ e \in SnapSignErrors
       \/ tasks[t].mode = "seed" /\ ~isSignerConfigured /\ e \in SeedSignErrors
    /\ Catch(t, tasks[t], "sign", e)
    /\ UNCHANGED <<wk, pendingTx, nextId, rejects, calls, relayOps>>
    /\ UNCHANGED unchangedSigner
    /\ UNCHANGED unchangedCodec
    /\ UNCHANGED unchangedRemote

\* getSnapInfo().catch(() => null) settled, either way
SnapInfoSettled(t) ==
    /\ ~InSync
    /\ At(t, "snapinfo")
    /\ MarkSigning(t)
    /\ UNCHANGED <<wk, pendingTx, txError, nextId, rejects, responses, calls, relayOps>>
    /\ UNCHANGED unchangedSigner
    /\ UNCHANGED unchangedCodec
    /\ UNCHANGED unchangedRemote

\* App.tsx:278-281: setTxStatus('submitting') and the call of submitUserOp
StartSubmit(t) ==
    /\ At(t, "signing")
    /\ txStatus' = "submitting"
    /\ calls' = Bump(tasks[t].tx.id, "submit")
    /\ tasks' = [tasks EXCEPT ![t].pc = "submit", ![t].st = "submitting"]
    /\ UNCHANGED <<wk, pendingTx, txError, nextId, rejects, responses, relayOps>>
    /\ UNCHANGED unchangedSigner
    /\ UNCHANGED unchangedCodec
    /\ UNCHANGED unchangedRemote

\* The relay accepted the operation and names it (bundler.ts:32);
\* setTxStatus('waiting') and waitForReceipt's first poll (App.tsx:285-288,
\* bundler.ts:42-54).
SubmitOk(t) ==
    /\ ~InSync
    /\ At(t, "submit")
    /\ relayOps' = Append(relayOps, [req |-> tasks[t].tx.id, served |-> FALSE, carried |-> {}])
    /\ txStatus' = "waiting"
    /\ calls' = Bump(tasks[t].tx.id, "poll")
    /\ tasks' = [tasks EXCEPT ![t].pc = "poll", ![t].st = "waiting",
                              ![t].opHash = Len(relayOps) + 1, ![t].elapsed = 0]
    /\ UNCHANGED <<wk, pendingTx, txError, nextId, rejects, responses>>
    /\ UNCHANGED unchangedSigner
    /\ UNCHANGED unchangedCodec
    /\ UNCHANGED unchangedRemote

\* mutant: result.error is not looked at before the first poll
SubmitFailPollsAnyway(t, e) ==
    /\ ~InSync
    /\ At(t, "submit")
    /\ Catch(t, tasks[t], "submit", e)
    /\ calls' = Bump(tasks[t].tx.id, "poll")
    /\ UNCHANGED <<wk, pendingTx, nextId, rejects, relayOps>>
    /\ UNCHANGED unchangedSigner
    /\ UNCHANGED unchangedCodec
    /\ UNCHANGED unchangedRemote

\* mutant: a rejected operation is submitted again
SubmitFailRetry(t, e) ==
    /\ ~InSync
    /\ At(t, "submit")
    /\ calls[tasks[t].tx.id].submit < CallCap
    /\ calls' = Bump(tasks[t].tx.id, "submit")
    /\ UNCHANGED <<nextId, tasks, rejects, responses, relayOps>>
    /\ UNCHANGED unchangedApp
    /\ UNCHANGED unchangedSigner
    /\ UNCHANGED unchangedCodec
    /\ UNCHANGED unchangedRemote

\* fetch failed, or the relay answered with result.error (bundler.ts:28-30)
SubmitFail(t, e) ==
    /\ ~InSync
    /\ At(t, "submit")
    /\ Catch(t, tasks[t], "submit", e)
    /\ UNCHANGED <<wk, pendingTx, nextId, rejects, calls, relayOps>>
    /\ UNCHANGED unchangedSigner
    /\ UNCHANGED unchangedCodec
    /\ UNCHANGED unchangedRemote

---------------------------------------------------------------------------
\* waitForReceipt's loop (bundler.ts:44-69) and the report of the outcome
\* (App.tsx:289-302).

\* What the clock read at bundler.ts:44 has advanced by: a poll's round trip
\* adds a latency, and the timer of bundler.ts:66 fires no earlier than
\* pollIntervalMs after it was set.  WaitSpec follows the clock to the
\* millisecond of the timer; Spec lets each timer fire late, half a budget
\* after it was set, which takes the loop through the same statements in
\* fewer rounds.
ExactClock == [latencies |-> {0, pollIntervalMs}, delays |-> {pollIntervalMs}]
LateClock == [latencies |-> {0}, delays |-> {timeoutMs \div 2}]
\* elapsed saturates above every value the loop can reach
ElapsedCap == timeoutMs + 2 * pollIntervalMs

\* mutant: the loop has no budget
WaitLoopNoBudget(elapsed) == elapsed >= 0

\* bundler.ts:44: while (Date.now() - start < timeoutMs)
WaitLoopContinues(elapsed) == elapsed < timeoutMs

\* The poll returned a receipt: waitForReceipt returns its hash,
\* setTxStatus('confirmed'), and the hash is sent to the session.
PollReceipt(t, shape) ==
    /\ ~InSync
    /\ At(t, "poll")
    /\ PollOpId(tasks[t]) \in DOMAIN relayOps
    /\ LET op == PollOpId(tasks[t])
           r  == RelayReceipt(op, shape)
       IN  /\ relayOps' = [relayOps EXCEPT ![op].served = TRUE,
                                            ![op].carried = ReceiptCarries(r)]
           /\ responses' = Respond(Addressee(tasks[t]),
                                   ResultResponse(Addressee(tasks[t]), ReceiptTxHash(r)))
    /\ txStatus' = "confirmed"
    /\ tasks' = [tasks EXCEPT ![t].pc = "respond", ![t].st = "confirmed",
                              ![t].elapsed = 0]
    /\ UNCHANGED <<wk, pendingTx, txError, nextId, rejects, calls>>
    /\ UNCHANGED unchangedSigner
    /\ UNCHANGED unchangedCodec
    /\ UNCHANGED unchangedRemote

\* The poll returned no receipt: sleep one interval (bundler.ts:66).
PollEmpty(t, latency) ==
    /\ ~InSync
    /\ At(t, "poll")
    /\ tasks' = [tasks EXCEPT ![t].pc = "sleep",
                              ![t].elapsed = Min(@ + latency, ElapsedCap)]
    /\ UNCHANGED <<nextId, rejects, responses, calls, relayOps>>
    /\ UNCHANGED unchangedApp
    /\ UNCHANGED unchangedSigner
    /\ UNCHANGED unchangedCodec
    /\ UNCHANGED unchangedRemote

\* fetch or response.json() threw
PollFail(t, e) ==
    /\ ~InSync
    /\ At(t, "poll")
    /\ Catch(t, tasks[t], "confirm", e)
    /\ UNCHANGED <<wk, pendingTx, nextId, rejects, calls, relayOps>>
    /\ UNCHANGED unchangedSigner
    /\ UNCHANGED unchangedCodec
    /\ UNCHANGED unchangedRemote

\* The sleep ended: poll again within the budget, else throw (bundler.ts:69).
SleepDone(t, delay) ==
    /\ ~InSync
    /\ At(t, "sleep")
    /\ delay >= pollIntervalMs
    /\ LET rec == [tasks[t] EXCEPT !.elapsed = Min(@ + delay, ElapsedCap)]
       IN  IF WaitLoopContinues(rec.elapsed)
             THEN /\ tasks' = [tasks EXCEPT ![t] = [rec EXCEPT !.pc = "poll"]]
                  /\ calls' = Bump(rec.tx.id, "poll")
                  /\ UNCHANGED <<txStatus, txError, responses>>
             ELSE /\ Catch(t, rec, "confirm", TimeoutError)
                  /\ UNCHANGED calls
    /\ UNCHANGED <<wk, pendingTx, nextId, rejects, relayOps>>
    /\ UNCHANGED unchangedSigner
    /\ UNCHANGED unchangedCodec
    /\ UNCHANGED unchangedRemote

\* respondSessionRequest of App.tsx:293 resolved
RespondOk(t) ==
    /\ ~InSync
    /\ At(t, "respond")
    /\ tasks' = [tasks EXCEPT ![t].pc = "done"]
    /\ UNCHANGED <<nextId, rejects, responses, calls, relayOps>>
    /\ UNCHANGED unchangedApp
    /\ UNCHANGED unchangedSigner
    /\ UNCHANGED unchangedCodec
    /\ UNCHANGED unchangedRemote

\* respondSessionRequest of App.tsx:293 rejected: it is inside the try
RespondFail(t, e) ==
    /\ ~InSync
    /\ At(t, "respond")
    /\ Catch(t, tasks[t], "report", e)
    /\ UNCHANGED <<wk, pendingTx, nextId, rejects, calls, relayOps>>
    /\ UNCHANGED unchangedSigner
    /\ UNCHANGED unchangedCodec
    /\ UNCHANGED unchangedRemote

---------------------------------------------------------------------------
TaskIds == 1..MaxRequests

\* the continuations of invocation t
TaskStep(t, clock) ==
    \/ NonceOk(t)
    \/ \E e \in NonceErrors : NonceFail(t, e)
    \/ SignOk(t)
    \/ \E e \in SnapSignErrors \cup SeedSignErrors : SignFail(t, e)
    \/ SnapInfoSettled(t)
    \/ StartSubmit(t)
    \/ SubmitOk(t)
    \/ \E e \in SubmitErrors : SubmitFail(t, e)
    \/ \E shape \in ReceiptShapes : PollReceipt(t, shape)
    \/ \E latency \in clock.latencies : PollEmpty(t, latency)
    \/ \E e \in PollErrors : PollFail(t, e)
    \/ \E delay \in clock.delays : SleepDone(t, delay)
    \/ RespondOk(t)
    \/ \E e \in RespondErrors : RespondFail(t, e)

\* what the dapp and the user do
Environment(maxRequests) ==
    \/ InitWalletKit
    \/ \E m \in {"seed", "snap"} : SetSignerMode(m)
    \/ \E seed \in SeedInputs : HandleLoadSeed(seed)
    \/ \E c \in BOOLEAN : SnapStatusSettled(c)
    \/ SessionRequestSend(maxRequests)
    \/ SessionRequestOther(maxRequests)
    \/ HandleApprove
    \/ \E resolves \in BOOLEAN : HandleReject(resolves)
    \/ \E tx \in BagToSet(rejects) : RejectSettled(tx)

Next ==
    \/ Environment(MaxRequests)
    \/ \E t \in TaskIds : TaskStep(t, LateClock)

Spec == Init /\ [][Next]_vars

\* The wait loop against the exact clock, one request at a time.
NextWait ==
    \/ Environment(1)
    \/ TaskStep(1, ExactClock)

\* Every pending call of a running invocation settles: the authority, the
\* signer, the relay and the session transport answer or fail, and timers run
\* out.
WaitSpec == Init /\ [][NextWait]_vars /\ WF_vars(TaskStep(1, ExactClock))

---------------------------------------------------------------------------
\* The claims.

InFlight(t) == tasks[t].st \in {"building", "signing", "submitting", "waiting"}
ResultsOf(id) == {k \in DOMAIN responses[id] : responses[id][k].kind = "result"}
PipelineStages == {"build", "sign", "submit", "confirm"}

\* C1: the status an approved operation's handleApprove sets moves only
\* forward along building -> signing -> submitting -> waiting -> confirmed,
\* or from building, signing, submitting or waiting to error.
StatusEdges ==
    { <<"building", "signing">>, <<"signing", "submitting">>,
      <<"submitting", "waiting">>, <<"waiting", "confirmed">>,
      <<"building", "error">>, <<"signing", "error">>,
      <<"submitting", "error">>, <<"waiting", "error">> }
C1_StatusMovesForward ==
    [][\A t \in DOMAIN tasks :
          tasks'[t].st # tasks[t].st => <<tasks[t].st, tasks'[t].st>> \in StatusEdges]_vars

\* C2: once an operation is confirmed it stays confirmed, and its request
\* gets no further response, also when reporting the result fails.
C2_ConfirmedIsTerminal ==
    [][\A t \in DOMAIN tasks :
          tasks[t].st = "confirmed"
              => /\ tasks'[t].st = "confirmed"
                 /\ responses'[tasks[t].tx.id] = responses[tasks[t].tx.id]]_vars

\* C3: a request the user declined has exactly one user-rejected response,
\* and no nonce query, signer call, relay submit or receipt poll was made
\* for it.
C3_RejectTouchesNothing ==
    \A id \in Ids :
        RejectsSent(id) > 0
            => /\ RejectsSent(id) = 1
               /\ calls[id] = [nonce |-> 0, sign |-> 0, submit |-> 0, poll |-> 0]

C5_PipelineErrorReported ==
    [][\A t \in DOMAIN tasks :
          /\ (tasks[t].pc # "failed" /\ tasks'[t].pc = "failed"
                /\ tasks'[t].stage \in PipelineStages)
              => LET e  == tasks'[t].err
                     id == tasks[t].tx.id
                     r  == responses'[id][Len(responses'[id])]
                 IN  /\ tasks'[t].st = "error"
                     /\ txStatus' = "error"
                     /\ e.message # "" => txError' = e.message
                     /\ Len(responses'[id]) = Len(responses[id]) + 1
                     /\ r.kind = "error"
                     /\ r.code = PIPELINE_ERROR
                     /\ r.code # USER_REJECTED
                     /\ r.topic = tasks[t].tx.topic
                     /\ e.message # "" => r.message = e.message
          /\ tasks[t].pc = "failed" => tasks'[t] = tasks[t]]_vars
C5_Witness ==
    \E t \in DOMAIN tasks :
        /\ At(t, "failed")
        /\ tasks[t].stage = "sign"
        /\ tasks[t].err.message = "Snap returned an invalid signature"
        /\ txStatus = "error"
        /\ txError = "Snap returned an invalid signature"

\* C6: when the nonce query fails the operation is in error, the signer was
\* not invoked and nothing was submitted to the relay for it.
C6_NonceFailureStopsBeforeSigner ==
    \A t \in DOMAIN tasks :
        tasks[t].stage = "build"
            => /\ tasks[t].st = "error"
               /\ At(t, "failed")
               /\ calls[tasks[t].tx.id].sign = 0
               /\ calls[tasks[t].tx.id].submit = 0
               /\ \A op \in DOMAIN relayOps : relayOps[op].req # tasks[t].tx.id
C6_Witness ==
    \E t \in DOMAIN tasks :
        /\ tasks[t].stage = "build"
        /\ calls[tasks[t].tx.id].nonce = 1
        /\ txStatus = "error"

\* C7: when the relay rejects the submit the operation is in error and the
\* receipt was never polled for it.
C7_RelayRejectionSkipsPolling ==
    \A t \in DOMAIN tasks :
        tasks[t].stage = "submit"
            => /\ tasks[t].st = "error"
               /\ At(t, "failed")
               /\ calls[tasks[t].tx.id].poll = 0
C7_Witness ==
    \E t \in DOMAIN tasks :
        /\ tasks[t].stage = "submit"
        /\ calls[tasks[t].tx.id].submit = 1
        /\ txStatus = "error"

C9_SingleFlight ==
    Cardinality({t \in DOMAIN tasks : InFlight(t)}) <= 1

\* C10: per request the nonce authority is queried at most once, the signer
\* invoked at most once and the relay's submit called at most once.
C10_NothingRetried ==
    \A id \in Ids :
        /\ calls[id].nonce <= 1
        /\ calls[id].sign <= 1
        /\ calls[id].submit <= 1
        /\ Cardinality({op \in DOMAIN relayOps : relayOps[op].req = id}) <= 1
C10_Witness ==
    \E t \in DOMAIN tasks :
        /\ tasks[t].stage = "confirm"
        /\ calls[tasks[t].tx.id].nonce = 1
        /\ calls[tasks[t].tx.id].sign = 1
        /\ calls[tasks[t].tx.id].submit = 1
        /\ calls[tasks[t].tx.id].poll = 2

\* C21: when the relay answers submit with a structured error, the failure
\* and the message of the rejection sent to the session are the relay's
\* message field, character for character.
C21_RelayMessageVerbatim ==
    \A t \in DOMAIN tasks : \A m \in RelayErrorMessages :
        (tasks[t].stage = "submit" /\ tasks[t].err = BundlerError(m))
            => /\ ErrMessage(tasks[t].err) = m
               /\ \E k \in DOMAIN responses[tasks[t].tx.id] :
                     /\ responses[tasks[t].tx.id][k].kind = "error"
                     /\ responses[tasks[t].tx.id][k].message = m

\* What the user and the session see of the failed invocation t besides the
\* text of the message: the status it ended in, and the kind and code of the
\* rejection sent for it.
RejectionsOf(t) ==
    { responses[tasks[t].tx.id][k] : k \in
        { k \in DOMAIN responses[tasks[t].tx.id] :
            /\ responses[tasks[t].tx.id][k].kind = "error"
            /\ responses[tasks[t].tx.id][k].message = ErrMessage(tasks[t].err) } }
ReportOf(t) ==
    {[status |-> tasks[t].st, kind |-> r.kind, code |-> r.code] : r \in RejectionsOf(t)}
TimedOut(t) == tasks[t].pc = "failed" /\ tasks[t].err = TimeoutError
DefiniteFailure(t) == tasks[t].pc = "failed" /\ tasks[t].stage \in {"build", "sign", "submit"}

\* C22: a receipt-polling timeout is told apart from a definite failure: its
\* terminal status or the kind or code of its rejection differs from those
\* of every build, sign or relay-rejected failure.
C22_TimeoutIsNotDefiniteFailure ==
    \A t1, t2 \in DOMAIN tasks :
        (TimedOut(t1) /\ DefiniteFailure(t2)) => ReportOf(t1) \cap ReportOf(t2) = {}

\* the error object of a rejection, App.tsx:316
RejectionErrors(t) == {[code |-> r.code, message |-> r.message] : r \in RejectionsOf(t)}

\* C23: the rejection of a failed invocation tells which stage failed: two
\* invocations that failed at different stages (build, sign, submit,
\* confirm) never send the same error object.
C23_RejectionNamesStage ==
    \A t1, t2 \in DOMAIN tasks :
        ( /\ tasks[t1].pc = "failed" /\ tasks[t1].stage \in PipelineStages
          /\ tasks[t2].pc = "failed" /\ tasks[t2].stage \in PipelineStages
          /\ tasks[t1].stage # tasks[t2].stage )
            => RejectionErrors(t1) \cap RejectionErrors(t2) = {}

---------------------------------------------------------------------------
\* The hex codecs: userop.ts:191-202, snap-signer.ts:115-137,
\* part_000:41-51 and pq-snap/src/crypto (part_006:353-372).
\*
\* A string is a sequence of one-character strings, a Uint8Array a sequence
\* of numbers in 0..255.

\* longest string given to a decoder
MaxHexLen == 4
\* longest byte sequence given to an encoder
MaxBytes == 2

LowerDigits == <<"0", "1", "2", "3", "4", "5", "6", "7", "8", "9", "a", "b", "c", "d", "e", "f">>
UpperDigits == <<"0", "1", "2", "3", "4", "5", "6", "7", "8", "9", "A", "B", "C", "D", "E", "F">>
\* the character class [0-9a-fA-F]
IsHexDigit(c) == \E i \in 1..16 : LowerDigits[i] = c \/ UpperDigits[i] = c
DigitValue(c) == (CHOOSE i \in 1..16 : LowerDigits[i] = c \/ UpperDigits[i] = c) - 1

\* Number.prototype.toString(16) of a byte
ToString16(b) ==
    IF b < 16 THEN <<LowerDigits[b + 1]>>
    ELSE <<LowerDigits[(b \div 16) + 1], LowerDigits[(b % 16) + 1]>>
\* String.prototype.padStart(2, '0')
PadStart2(s) == IF Len(s) < 2 THEN <<"0">> \o s ELSE s

\* mutant: the byte is not padded to two digits
HexOfByteNoPad(b) == ToString16(b)

\* b.toString(16).padStart(2, '0')
HexOfByte(b) == PadStart2(ToString16(b))

RECURSIVE Join(_)
Join(parts) == IF parts = <<>> THEN <<>> ELSE Head(parts) \o Join(Tail(parts))

\* `0x${Array.from(bytes).map(...).join('')}`; the three copies are the same
bytesToHex(bytes) == <<"0", "x">> \o Join([i \in 1..Len(bytes) |-> HexOfByte(bytes[i])])
snapBytesToHex(bytes) == <<"0", "x">> \o Join([i \in 1..Len(bytes) |-> HexOfByte(bytes[i])])
cryptoBytesToHex(bytes) == <<"0", "x">> \o Join([i \in 1..Len(bytes) |-> HexOfByte(bytes[i])])

\* parseInt(s, 16): leading white space, a sign and a 0x prefix are skipped,
\* then the longest run of hex digits is read; NaN when that run is empty.
IsWhiteSpace(c) == c \in {" ", "\t", "\n"}
RECURSIVE TrimStart(_)
TrimStart(s) == IF s # <<>> /\ IsWhiteSpace(Head(s)) THEN TrimStart(Tail(s)) ELSE s
RECURSIVE DigitRun(_)
DigitRun(s) == IF s # <<>> /\ IsHexDigit(Head(s)) THEN <<Head(s)>> \o DigitRun(Tail(s)) ELSE <<>>
RECURSIVE RunValue(_, _)
RunValue(run, acc) ==
    IF run = <<>> THEN acc ELSE RunValue(Tail(run), 16 * acc + DigitValue(Head(run)))
parseInt16(s) ==
    LET t    == TrimStart(s)
        sign == IF t # <<>> /\ Head(t) = "-" THEN -1 ELSE 1
        u    == IF t # <<>> /\ Head(t) \in {"+", "-"} THEN Tail(t) ELSE t
        v    == IF Len(u) >= 2 /\ u[1] = "0" /\ u[2] \in {"x", "X"}
                  THEN SubSeq(u, 3, Len(u)) ELSE u
        run  == DigitRun(v)
    IN  IF run = <<>> THEN [nan |-> TRUE, value |-> 0]
        ELSE [nan |-> FALSE, value |-> sign * RunValue(run, 0)]
\* the store of a number into a Uint8Array element: NaN is 0, else modulo 256
ToUint8(n) == IF n.nan THEN 0 ELSE n.value % 256

\* hex.startsWith('0x') ? hex.slice(2) : hex
StripPrefix(hex) ==
    IF Len(hex) >= 2 /\ hex[1] = "0" /\ hex[2] = "x" THEN SubSeq(hex, 3, Len(hex)) ELSE hex

\* new Uint8Array(clean.length / 2) and the loop that fills it: the length
\* is truncated to an integer (ToIndex), so the last digit of an odd-length
\* string is not read.
DecodePairs(clean) ==
    [i \in 1..(Len(clean) \div 2) |-> ToUint8(parseInt16(SubSeq(clean, 2 * i - 1, 2 * i)))]

Returned(bytes) == [ok |-> TRUE, bytes |-> bytes, error |-> ""]
Thrown(msg) == [ok |-> FALSE, bytes |-> <<>>, error |-> msg]
AllHexDigits(clean) == \A i \in 1..Len(clean) : IsHexDigit(clean[i])

\* userop.ts:191-198
hexToBytes(hex) == Returned(DecodePairs(StripPrefix(hex)))

\* pq-snap/src/crypto, part_006:362-372
cryptoHexToBytes(hex) ==
    LET cleanHex == StripPrefix(hex)
    IN  IF Len(cleanHex) % 2 # 0 THEN Thrown("Invalid hex string length")
        ELSE Returned(DecodePairs(cleanHex))

\* mutant: the strict decoder does not test the characters
hexToBytesNoCharCheck(hex) ==
    LET clean == StripPrefix(hex)
    IN  IF Len(clean) % 2 # 0 THEN Thrown("Hex value must have an even length")
        ELSE Returned(DecodePairs(clean))

\* snap-signer.ts:127-137
hexToBytesStrict(hex) ==
    LET clean == StripPrefix(hex)
    IN  IF Len(clean) % 2 # 0 THEN Thrown("Hex value must have an even length")
        ELSE IF ~AllHexDigits(clean) THEN Thrown("Hex value contains non-hex characters")
        ELSE Returned(DecodePairs(clean))

\* the seed signer's copy, part_000:41-51
seedHexToBytesStrict(hex) ==
    LET clean == StripPrefix(hex)
    IN  IF Len(clean) % 2 # 0 THEN Thrown("Seed hex must have an even length")
        ELSE IF ~AllHexDigits(clean) THEN Thrown("Seed contains non-hex characters")
        ELSE Returned(DecodePairs(clean))

Decoders == {"userop", "crypto", "snap", "seed"}
Encoders == {"userop", "crypto", "snap"}
Decode(codec, hex) ==
    CASE codec = "userop" -> hexToBytes(hex)
      [] codec = "crypto" -> cryptoHexToBytes(hex)
      [] codec = "snap"   -> hexToBytesStrict(hex)
      [] codec = "seed"   -> seedHexToBytesStrict(hex)
Encode(codec, bytes) ==
    CASE codec = "userop" -> bytesToHex(bytes)
      [] codec = "crypto" -> cryptoBytesToHex(bytes)
      [] codec = "snap"   -> snapBytesToHex(bytes)

SeqsUpTo(S, n) == UNION {[1..k -> S] : k \in 0..n}
HexAlphabet == {"0", "1", "a", "F", "g", "x", "-"}
HexStrings == SeqsUpTo(HexAlphabet, MaxHexLen)
ByteValues == {0, 1, 15, 16, 171, 255}
ByteSeqs == SeqsUpTo(ByteValues, MaxBytes)

HexCalls ==
    {[fn |-> "roundtrip", codec |-> c, arg |-> b] : c \in Encoders, b \in ByteSeqs}
        \cup {[fn |-> "decode", codec |-> c, arg |-> h] : c \in Decoders, h \in HexStrings}

HexInit ==
    /\ AppInit
    /\ RemoteInit
    /\ call \in HexCalls
    /\ ret = <<>>

BytesToHexCall ==
    /\ call.fn = "roundtrip"
    /\ ret = <<>>
    /\ ret' = <<Encode(call.codec, call.arg)>>
    /\ UNCHANGED <<appVars, call>>
    /\ UNCHANGED unchangedRemote

\* the same codec decodes what it encoded
HexToBytesBack ==
    /\ call.fn = "roundtrip"
    /\ Len(ret) = 1
    /\ ret' = Append(ret, Decode(call.codec, ret[1]))
    /\ UNCHANGED <<appVars, call>>
    /\ UNCHANGED unchangedRemote

HexToBytesCall ==
    /\ call.fn = "decode"
    /\ ret = <<>>
    /\ ret' = <<Decode(call.codec, call.arg)>>
    /\ UNCHANGED <<appVars, call>>
    /\ UNCHANGED unchangedRemote

HexNext ==
    \/ BytesToHexCall
    \/ HexToBytesBack
    \/ HexToBytesCall

HexSpec == HexInit /\ [][HexNext]_vars

\* C19: for every byte sequence and every codec, the encoding is 0x followed
\* by two lowercase hex digits per byte, and decoding it gives the bytes back.
C19_HexRoundTrip ==
    call.fn = "roundtrip"
        => /\ Len(ret) >= 1
                => /\ Len(ret[1]) = 2 + 2 * Len(call.arg)
                   /\ SubSeq(ret[1], 1, 2) = <<"0", "x">>
                   /\ \A i \in 3..Len(ret[1]) : \E d \in 1..16 : ret[1][i] = LowerDigits[d]
           /\ Len(ret) = 2 => ret[2] = Returned(call.arg)
C19_Witness ==
    /\ call.fn = "roundtrip"
    /\ call.codec = "snap"
    /\ call.arg = <<15, 171>>
    /\ Len(ret) = 2
    /\ ret[1] = <<"0", "x", "0", "f", "a", "b">>
    /\ ret[2].bytes = <<15, 171>>

\* C20: every decoder throws on a string that, without its 0x prefix, has
\* odd length or holds a character that is no hex digit, and decodes "" and
\* "0x" to no bytes.
MalformedHex(hex) ==
    LET clean == StripPrefix(hex)
    IN  Len(clean) % 2 = 1 \/ ~AllHexDigits(clean)
C20_DecodeRejectsMalformed ==
    (call.fn = "decode" /\ Len(ret) = 1)
        => /\ MalformedHex(call.arg) => ~ret[1].ok
           /\ call.arg \in {<<>>, <<"0", "x">>} => ret[1] = Returned(<<>>)

---------------------------------------------------------------------------
\* The two signers: the seed signer of part_000 and the remote signer of
\* snap-signer.ts:94-113.  ret is the log of the calls made so far, each with
\* its outcome and with what it reached: the signature library, the remote
\* snap, or neither.

\* calls made to the signers in one run
MaxSignerCalls == 2

\* part_000:13: seed.length !== 32
seedLength == 32
\* snap-signer.ts:95: hash.length !== 32
userOpHashLength == 32

Rep(c, n) == [i \in 1..n |-> c]

\* mutant: the decoded seed's length is not tested
configureSignerAnyLength(seedHex, kp) ==
    LET seed == seedHexToBytesStrict(seedHex)
    IN  IF ~seed.ok THEN [out |-> seed, keypair |-> kp]
        ELSE [out |-> Returned(<<>>), keypair |-> keygen(seed.bytes)]

\* part_000:11-16, called with the module holding keypair kp
configureSignerFromSeed(seedHex, kp) ==
    LET seed == seedHexToBytesStrict(seedHex)
    IN  IF ~seed.ok THEN [out |-> seed, keypair |-> kp]
        ELSE IF Len(seed.bytes) # seedLength
               THEN [out |-> Thrown("Expected 32-byte seed"), keypair |-> kp]
        ELSE [out |-> Returned(<<>>), keypair |-> keygen(seed.bytes)]

\* ml_dsa65.sign(hash, kp.secretKey): the library signs a message of any length
mldsaSign(hash, kp) == <<[msg |-> hash, seed |-> kp.seed]>>

\* mutant: getKeypair hands out the keypair without testing it
getKeypairUnchecked(kp) == Returned(<<kp>>)

\* part_000:22-27
getKeypair(kp) ==
    IF ~kp.loaded THEN Thrown("Signer not initialized. Load a 32-byte ML-DSA seed first.")
    ELSE Returned(<<kp>>)

\* part_000:30-34
signUserOpHash(hash, kp) ==
    LET got == getKeypair(kp)
    IN  IF ~got.ok THEN [out |-> got, reached |-> "none"]
        ELSE [out |-> Returned(mldsaSign(hash, got.bytes[1])), reached |-> "library"]

\* What wallet_invokeSnap settles with: the request rejects, or resolves with
\* null or with an object whose signature field is absent, a number or a
\* string.
SnapReply(settles, shape, sigType, sig) ==
    [settles |-> settles, shape |-> shape, sigType |-> sigType, sig |-> sig]
SnapSignatures ==
    { <<>>, <<"0", "x">>, <<"0", "x", "a", "b">>, <<"A", "B", "0", "1">>,
      <<"0", "x", "a", "b", "c">>, <<"0", "x", "z", "z">>, <<"0", "x", "-", "1">> }
SnapReplies ==
    { SnapReply("rejects", "none", "undefined", <<>>),
      SnapReply("resolves", "null", "undefined", <<>>),
      SnapReply("resolves", "object", "undefined", <<>>),
      SnapReply("resolves", "object", "number", <<>>) }
        \cup {SnapReply("resolves", "object", "string", g) : g \in SnapSignatures}

\* snap-signer.ts:94-113
signViaSnap(hash, reply) ==
    IF Len(hash) # userOpHashLength
      THEN [out |-> Thrown("Expected 32-byte UserOp hash"), reached |-> "none"]
    ELSE IF reply.settles = "rejects"
      THEN [out |-> Thrown("wallet_invokeSnap rejected"), reached |-> "remote"]
    ELSE IF reply.shape = "null"
      THEN [out |-> Thrown("TypeError: Cannot read properties of null"), reached |-> "remote"]
    ELSE IF reply.sigType # "string" \/ reply.sig = <<>>
      THEN [out |-> Thrown("Snap returned an invalid signature"), reached |-> "remote"]
    ELSE [out |-> hexToBytesStrict(reply.sig), reached |-> "remote"]

SeedTexts ==
    { Rep("a", 64), <<"0", "x">> \o Rep("1", 64), Rep("a", 63), Rep("a", 62),
      Rep("a", 66), Rep("g", 64), Rep("a", 63) \o <<"g">>, <<"0", "x">> }
SignerHashes == {Rep(1, 32), Rep(2, 32), Rep(1, 16), Rep(1, 33), <<>>}

Logged(c, r) == Append(ret, [call |-> c, out |-> r.out, reached |-> r.reached])
unchangedAppButKeypair ==
    <<wk, pendingTx, txStatus, txError, signerMode, seedSignerReady, snapConnected,
      nextId, tasks, rejects, responses, calls, relayOps>>

ConfigureSignerFromSeedCall(seedHex) ==
    /\ Len(ret) < MaxSignerCalls
    /\ LET r == configureSignerFromSeed(seedHex, cachedKeypair)
       IN  /\ cachedKeypair' = r.keypair
           /\ call' = [fn |-> "configure", arg |-> seedHex]
           /\ ret' = Logged(call', [out |-> r.out, reached |-> "none"])
    /\ UNCHANGED unchangedAppButKeypair
    /\ UNCHANGED unchangedRemote

IsSignerConfiguredCall ==
    /\ Len(ret) < MaxSignerCalls
    /\ call' = [fn |-> "isConfigured", arg |-> <<>>]
    /\ ret' = Logged(call', [out |-> [ok |-> TRUE, value |-> isSignerConfigured],
                             reached |-> "none"])
    /\ UNCHANGED appVars
    /\ UNCHANGED unchangedRemote

SignUserOpHashCall(hash) ==
    /\ Len(ret) < MaxSignerCalls
    /\ call' = [fn |-> "sign", arg |-> hash]
    /\ ret' = Logged(call', signUserOpHash(hash, cachedKeypair))
    /\ UNCHANGED appVars
    /\ UNCHANGED unchangedRemote

SignViaSnapCall(hash, reply) ==
    /\ Len(ret) < MaxSignerCalls
    /\ call' = [fn |-> "signViaSnap", arg |-> hash, reply |-> reply]
    /\ ret' = Logged(call', signViaSnap(hash, reply))
    /\ UNCHANGED appVars
    /\ UNCHANGED unchangedRemote

\* userop.ts:138-152 once signFn has settled with `signed`: the signature
\* bytes are hex-encoded and attached to the operation.
buildUserOpSigned(signed) ==
    IF ~signed.ok THEN [ok |-> FALSE, signature |-> <<>>, error |-> signed.error]
    ELSE [ok |-> TRUE, signature |-> bytesToHex(signed.bytes), error |-> ""]

\* App.tsx:262-281: the operation buildUserOp resolved with is passed to
\* submitUserOp; a throw of buildUserOp skips the submit.
submittedOps(built) == IF built.ok THEN <<built.signature>> ELSE <<>>

\* handleApprove in snap mode from the call of signFn (userop.ts:139) to the
\* call of submitUserOp (App.tsx:281), the snap answering with `reply`.
BuildUserOpCall(hash, reply) ==
    /\ Len(ret) < MaxSignerCalls
    /\ Len(hash) = userOpHashLength
    /\ LET signed == signViaSnap(hash, reply)
           built  == buildUserOpSigned(signed.out)
       IN  /\ call' = [fn |-> "buildUserOp", arg |-> hash, reply |-> reply]
           /\ ret' = Append(ret, [call |-> call', out |-> signed.out,
                                  reached |-> signed.reached, built |-> built,
                                  submitted |-> submittedOps(built)])
    /\ UNCHANGED appVars
    /\ UNCHANGED unchangedRemote

SignerNext ==
    \/ \E seedHex \in SeedTexts : ConfigureSignerFromSeedCall(seedHex)
    \/ IsSignerConfiguredCall
    \/ \E hash \in SignerHashes : SignUserOpHashCall(hash)
    \/ \E hash \in SignerHashes, reply \in SnapReplies : SignViaSnapCall(hash, reply)
    \/ \E hash \in SignerHashes, reply \in SnapReplies : BuildUserOpCall(hash, reply)

SignerSpec == Init /\ [][SignerNext]_vars

SignCalls == {i \in DOMAIN ret : ret[i].call.fn \in {"sign", "signViaSnap"}}
ConfigureCalls == {i \in DOMAIN ret : ret[i].call.fn = "configure"}

\* C15: a sign call of either signer with a hash that is not 32 bytes long
\* throws, and reaches neither the signature library nor the remote snap.
C15_WrongLengthHashRejected ==
    \A i \in SignCalls :
        Len(ret[i].call.arg) # 32 => ~ret[i].out.ok /\ ret[i].reached = "none"

NewCalls == DOMAIN ret' \ DOMAIN ret

\* C16: the seed signer is configured exactly when an earlier configure call
\* succeeded, isSignerConfigured() reports that, and signUserOpHash throws
\* 'Signer not initialized' exactly when it is not configured.
C16_ConfiguredIffConfigureSucceeded ==
    /\ [](isSignerConfigured <=> \E i \in ConfigureCalls : ret[i].out.ok)
    /\ [][\A i \in NewCalls :
             /\ ret'[i].call.fn = "isConfigured"
                    => (ret'[i].out.value <=> \E k \in ConfigureCalls : ret[k].out.ok)
             /\ ret'[i].call.fn = "sign"
                    => (~ret'[i].out.ok <=> ~isSignerConfigured)
             /\ (ret'[i].call.fn = "sign" /\ ~ret'[i].out.ok)
                    => ret'[i].out.error
                         = "Signer not initialized. Load a 32-byte ML-DSA seed first."]_vars
C16_Witness ==
    /\ Len(ret) = 2
    /\ ret[1].call.fn = "configure"
    /\ ret[1].out.ok
    /\ ret[2].call.fn = "sign"
    /\ ret[2].out.ok
    /\ isSignerConfigured

\* C17: configure throws for every seed string that is malformed hex or
\* does not decode to 32 bytes, and a configure that throws leaves the
\* loaded keypair, and so isSignerConfigured(), as they were.
InvalidSeed(seedHex) ==
    \/ MalformedHex(seedHex)
    \/ Len(StripPrefix(seedHex)) # 2 * 32
C17_InvalidSeedChangesNothing ==
    [][\A i \in NewCalls :
          ret'[i].call.fn = "configure"
              => /\ InvalidSeed(ret'[i].call.arg) => ~ret'[i].out.ok
                 /\ ~ret'[i].out.ok
                        => /\ cachedKeypair' = cachedKeypair
                           /\ isSignerConfigured' = isSignerConfigured]_vars
C17_Witness ==
    /\ Len(ret) = 2
    /\ ret[1].call = [fn |-> "configure", arg |-> Rep("a", 64)]
    /\ ret[1].out.ok
    /\ ret[2].call = [fn |-> "configure", arg |-> Rep("a", 62)]
    /\ ret[2].out = Thrown("Expected 32-byte seed")
    /\ cachedKeypair = keygen(Rep(170, 32))

\* C18: signViaSnap throws when the remote call rejects or the reply's
\* signature is missing, not a string, of odd hex length or holds a non-hex
\* character; a signature it returns is the reply's hex digits, pair by pair.
BadSnapReply(reply) ==
    \/ reply.settles = "rejects"
    \/ reply.shape # "object"
    \/ reply.sigType # "string"
    \/ MalformedHex(reply.sig)
C18_SnapSignatureStrict ==
    \A i \in DOMAIN ret :
        (ret[i].call.fn = "signViaSnap" /\ Len(ret[i].call.arg) = 32)
            => LET reply  == ret[i].call.reply
                   digits == StripPrefix(reply.sig)
               IN  /\ BadSnapReply(reply) => ~ret[i].out.ok
                   /\ ret[i].out.ok
                        => /\ ~BadSnapReply(reply)
                           /\ Len(ret[i].out.bytes) * 2 = Len(digits)
                           /\ \A k \in DOMAIN ret[i].out.bytes :
                                 ret[i].out.bytes[k]
                                   = 16 * DigitValue(digits[2 * k - 1]) + DigitValue(digits[2 * k])
C18_Witness ==
    \E i \in DOMAIN ret :
        /\ ret[i].call.fn = "signViaSnap"
        /\ Len(ret[i].call.arg) = 32
        /\ ret[i].call.reply.sig = <<"0", "x", "z", "z">>
        /\ ret[i].out = Thrown("Hex value contains non-hex characters")
        /\ ret[i].reached = "remote"

\* C24: no operation handed to the relay has an empty signature: when the
\* signer resolves with zero signature bytes, building the operation fails
\* and nothing is submitted.
C24_NoEmptySignatureSubmitted ==
    \A i \in DOMAIN ret :
        ret[i].call.fn = "buildUserOp"
            => /\ \A k \in DOMAIN ret[i].submitted : ret[i].submitted[k] # <<"0", "x">>
               /\ (ret[i].out.ok /\ ret[i].out.bytes = <<>>)
                    => ~ret[i].built.ok /\ ret[i].submitted = <<>>

---------------------------------------------------------------------------
\* Gas packing (userop.ts:106-123) and unpacking for the relay
\* (bundler.ts:75-108).
\*
\* A bigint is the sequence of its base-16 digits, least significant first,
\* with no digits for zero; hex strings are sequences of characters.

\* pad(.., { size: 16 }), userop.ts:115
padSize == 16
\* agl.slice(0, 32), bundler.ts:78
halfDigits == 32

Reverse(s) == [i \in 1..Len(s) |-> s[Len(s) - i + 1]]

\* viem numberToHex: `0x${value.toString(16)}`
numberToHex(v) ==
    <<"0", "x">> \o (IF v = <<>> THEN <<"0">>
                     ELSE [i \in 1..Len(v) |-> LowerDigits[v[Len(v) - i + 1] + 1]])

\* viem pad(hex, { size }) for a value that fits: padStart(size * 2, '0')
pad(hex, size) ==
    LET digits == SubSeq(hex, 3, Len(hex))
    IN  <<"0", "x">> \o Rep("0", 2 * size - Len(digits)) \o digits

\* viem concat of two hex strings
concat(a, b) == <<"0", "x">> \o SubSeq(a, 3, Len(a)) \o SubSeq(b, 3, Len(b))

\* userop.ts:114-117 and 120-123
packGas(high, low) == concat(pad(numberToHex(high), padSize), pad(numberToHex(low), padSize))

\* mutant: every 0 is removed, not only the leading ones
StripEveryZero(s) == SelectSeq(s, LAMBDA c : c # "0")

\* String.prototype.replace(/^0+/, '')
RECURSIVE StripLeadingZeros(_)
StripLeadingZeros(s) ==
    IF s # <<>> /\ Head(s) = "0" THEN StripLeadingZeros(Tail(s)) ELSE s

\* x || '0'
OrZero(s) == IF s = <<>> THEN <<"0">> ELSE s

\* bundler.ts:105-108
ensureHexPrefix(val) ==
    IF val \in {<<"0", "x">>, <<"0", "x", "0">>, <<>>} THEN <<"0", "x", "0">>
    ELSE IF Len(val) >= 2 /\ val[1] = "0" /\ val[2] = "x" THEN val
    ELSE <<"0", "x">> \o val

\* bundler.ts:77-79 and 82-84, then 92-96: both packed fields are split the
\* same way, and no width is tested
unpackHalves(field) ==
    LET body == SubSeq(field, 3, Len(field))
        high == <<"0", "x">> \o OrZero(StripLeadingZeros(SubSeq(body, 1, Min(halfDigits, Len(body)))))
        low  == <<"0", "x">> \o OrZero(StripLeadingZeros(SubSeq(body, halfDigits + 1, Len(body))))
    IN  [ok |-> TRUE, fields |-> <<ensureHexPrefix(high), ensureHexPrefix(low)>>]
unpackAccountGasLimits(accountGasLimits) == unpackHalves(accountGasLimits)
unpackGasFees(gasFees) == unpackHalves(gasFees)
GasFields == {"accountGasLimits", "gasFees"}
Unpack(field, packed) ==
    CASE field = "accountGasLimits" -> unpackAccountGasLimits(packed)
      [] field = "gasFees"          -> unpackGasFees(packed)

\* 0, 1, 0x10, 100000, 2000000, 10^9, 10^10, 2^127 and 2^128 - 1
GasValues ==
    { <<>>, <<1>>, <<0, 1>>, Reverse(<<1, 8, 6, 10, 0>>), Reverse(<<1, 14, 8, 4, 8, 0>>),
      Reverse(<<3, 11, 9, 10, 12, 10, 0, 0>>), Reverse(<<2, 5, 4, 0, 11, 14, 4, 0, 0>>),
      Rep(0, 31) \o <<8>>, Rep(15, 32) }
PackedWidths == {0, 31, 32, 33}
PackedFields ==
    {<<"0", "x">> \o Rep(c, 2 * w) : c \in {"0", "1"}, w \in PackedWidths}
        \cup {<<"0", "x">> \o Rep("1", 63)}

GasCalls ==
    {[fn |-> "roundtrip", field |-> f, arg |-> <<a, b>>] : f \in GasFields, a \in GasValues, b \in GasValues}
        \cup {[fn |-> "unpack", field |-> f, arg |-> p] : f \in GasFields, p \in PackedFields}

GasInit ==
    /\ AppInit
    /\ RemoteInit
    /\ call \in GasCalls
    /\ ret = <<>>

PackGasCall ==
    /\ call.fn = "roundtrip"
    /\ ret = <<>>
    /\ ret' = <<packGas(call.arg[1], call.arg[2])>>
    /\ UNCHANGED <<appVars, call>>
    /\ UNCHANGED unchangedRemote

UnpackPackedCall ==
    /\ call.fn = "roundtrip"
    /\ Len(ret) = 1
    /\ ret' = Append(ret, Unpack(call.field, ret[1]))
    /\ UNCHANGED <<appVars, call>>
    /\ UNCHANGED unchangedRemote

UnpackFieldCall ==
    /\ call.fn = "unpack"
    /\ ret = <<>>
    /\ ret' = <<Unpack(call.field, call.arg)>>
    /\ UNCHANGED <<appVars, call>>
    /\ UNCHANGED unchangedRemote

GasNext ==
    \/ PackGasCall
    \/ UnpackPackedCall
    \/ UnpackFieldCall

GasSpec == GasInit /\ [][GasNext]_vars

\* what the relay reads from a quantity string: the value of its digits
RECURSIVE DropZeroValues(_)
DropZeroValues(s) == IF s # <<>> /\ Head(s) = 0 THEN DropZeroValues(Tail(s)) ELSE s
QuantityValue(hex) ==
    LET digits == SubSeq(hex, 3, Len(hex))
    IN  Reverse(DropZeroValues([i \in 1..Len(digits) |-> DigitValue(digits[i])]))
\* 0x, then the digit 0 alone or digits that do not start with 0
CanonicalQuantity(hex) ==
    /\ Len(hex) >= 3
    /\ SubSeq(hex, 1, 2) = <<"0", "x">>
    /\ \A i \in 3..Len(hex) : IsHexDigit(hex[i])
    /\ hex[3] = "0" => Len(hex) = 3

\* C13: packing two gas values below 2^128 gives a 32-byte field, and
\* unpacking it gives quantity strings without leading zeros (0x0 for zero)
\* whose values are the two values packed.
C13_GasPackRoundTrip ==
    call.fn = "roundtrip"
        => /\ Len(ret) >= 1 => Len(ret[1]) = 2 + 2 * 32
           /\ Len(ret) = 2
                => \A k \in 1..2 :
                      /\ CanonicalQuantity(ret[2].fields[k])
                      /\ QuantityValue(ret[2].fields[k]) = call.arg[k]
C13_Witness ==
    /\ call.fn = "roundtrip"
    /\ call.field = "gasFees"
    /\ call.arg = <<<<>>, Reverse(<<2, 5, 4, 0, 11, 14, 4, 0, 0>>)>>
    /\ Len(ret) = 2
    /\ ret[2].fields = << <<"0", "x", "0">>,
                          <<"0", "x", "2", "5", "4", "0", "b", "e", "4", "0", "0">> >>

\* C14: unpacking a packed gas field that is not 32 bytes wide throws.
C14_UnpackRejectsOtherWidths ==
    (call.fn = "unpack" /\ Len(ret) = 1 /\ Len(call.arg) # 2 + 2 * 32) => ~ret[1].ok

---------------------------------------------------------------------------
\* The nonce key of the post-quantum validator (userop.ts:94-104).

\* String.prototype.toLowerCase on hex characters
toLowerCase(s) ==
    [i \in 1..Len(s) |->
        IF \E d \in 1..16 : UpperDigits[d] = s[i]
          THEN LowerDigits[CHOOSE d \in 1..16 : UpperDigits[d] = s[i]]
          ELSE s[i]]

\* BigInt of a 0x hex string
BigInt(hex) ==
    LET digits == SubSeq(hex, 3, Len(hex))
        values == [i \in 1..Len(digits) |-> DigitValue(digits[i])]
    IN  Reverse(DropZeroValues(values))

\* mutant: the discriminant byte one byte higher, at bit 184
nonceKeyAtBit184(validator) ==
    LET validatorClean == toLowerCase(SubSeq(validator, 3, Len(validator)))
    IN  BigInt(<<"0", "x", "0", "1", "0", "0">> \o validatorClean \o <<"0", "0", "0", "0">>)

\* userop.ts:96-97: BigInt(`0x0001${validatorClean}0000`)
nonceKey(validator) ==
    LET validatorClean == toLowerCase(SubSeq(validator, 3, Len(validator)))
    IN  BigInt(<<"0", "x", "0", "0", "0", "1">> \o validatorClean \o <<"0", "0", "0", "0">>)

\* 20-byte addresses, in lower, upper and mixed case
AddressDigits == {"0", "8", "a", "A", "f", "F"}
ValidatorAddresses ==
    {<<"0", "x">> \o Rep(c1, 20) \o Rep(c2, 20) : c1 \in AddressDigits, c2 \in AddressDigits}

NonceKeyCalls ==
    {[fn |-> "nonceKey", arg |-> a, other |-> b] : a \in ValidatorAddresses, b \in ValidatorAddresses}

NonceKeyInit ==
    /\ AppInit
    /\ RemoteInit
    /\ call \in NonceKeyCalls
    /\ ret = <<>>

NonceKeyCall ==
    /\ call.fn = "nonceKey"
    /\ ret = <<>>
    /\ ret' = <<nonceKey(call.arg)>>
    /\ UNCHANGED <<appVars, call>>
    /\ UNCHANGED unchangedRemote

\* the key of a second validator
NonceKeyOtherCall ==
    /\ call.fn = "nonceKey"
    /\ Len(ret) = 1
    /\ ret' = Append(ret, nonceKey(call.other))
    /\ UNCHANGED <<appVars, call>>
    /\ UNCHANGED unchangedRemote

NonceKeyNext ==
    \/ NonceKeyCall
    \/ NonceKeyOtherCall

NonceKeySpec == NonceKeyInit /\ [][NonceKeyNext]_vars

\* arithmetic on bigints: x << bits for bits a multiple of 4, and x | y
ShiftLeft(x, bits) == IF x = <<>> THEN <<>> ELSE Rep(0, bits \div 4) \o x
DigitAt(x, i) == IF i <= Len(x) THEN x[i] ELSE 0
OrDigit(a, b) ==
    LET bit(d, w) == (d \div w) % 2
        or(w) == IF bit(a, w) = 1 \/ bit(b, w) = 1 THEN w ELSE 0
    IN  or(1) + or(2) + or(4) + or(8)
BitOr(x, y) ==
    [i \in 1..(IF Len(x) > Len(y) THEN Len(x) ELSE Len(y)) |-> OrDigit(DigitAt(x, i), DigitAt(y, i))]
\* uint160(validatorAddress)
Uint160(address) == QuantityValue(address)

\* C12: for every 20-byte validator address the nonce key is
\* (0x01 << 176) | (uint160(address) << 16): a 1 at bit 176 and nothing above
\* it, zero in the low 16 bits, never the root key 0, and different for
\* validators that differ.
C12_NonceKeyLayout ==
    (call.fn = "nonceKey" /\ Len(ret) >= 1)
        => /\ ret[1] = BitOr(ShiftLeft(<<1>>, 176), ShiftLeft(Uint160(call.arg), 16))
           /\ Len(ret[1]) = 45
           /\ ret[1][45] = 1
           /\ \A i \in 1..4 : ret[1][i] = 0
           /\ [i \in 1..40 |-> ret[1][i + 4]] = [i \in 1..40 |-> DigitAt(Uint160(call.arg), i)]
           /\ ret[1] # <<>>
           /\ Len(ret) = 2 => (ret[1] = ret[2] <=> Uint160(call.arg) = Uint160(call.other))
C12_Witness ==
    /\ call.fn = "nonceKey"
    /\ call.arg = <<"0", "x">> \o Rep("A", 20) \o Rep("f", 20)
    /\ call.other = <<"0", "x">> \o Rep("a", 20) \o Rep("F", 20)
    /\ Len(ret) = 2
    /\ ret[1] = Rep(0, 4) \o Rep(15, 20) \o Rep(10, 20) \o <<1>>
    /\ ret[2] = ret[1]

---------------------------------------------------------------------------
\* The operation hash (userop.ts:161-188).
\*
\* keccak256 and the ABI encoding are kept as terms: an encoded tuple is the
\* sequence of its 32-byte words, a word holding a number or a hash; a hash
\* is the term of what was hashed.

\* userop.ts:22: parseInt(import.meta.env.VITE_CHAIN_ID || '412346')
CHAIN_ID == 412346
\* userop.ts:19: the address the build was configured with
ENTRYPOINT == <<"0", "x">> \o Rep("0", 32) \o <<"7", "1", "7", "2", "7", "D", "e", "2">>

\* BigInt of a number
RECURSIVE BigIntOfNumber(_)
BigIntOfNumber(n) == IF n = 0 THEN <<>> ELSE <<n % 16>> \o BigIntOfNumber(n \div 16)

\* keccak256 of a hex string: the hash of the bytes it denotes
keccak256(hex) == [keccakOfBytes |-> toLowerCase(SubSeq(hex, 3, Len(hex)))]
\* keccak256 of an encoded tuple
keccak256Tuple(encoded) == [keccakOfTuple |-> encoded]
\* the word of an address, a uint256 or a bytes32 given as a hex string or bigint
AddressWord(address) == [uint |-> BigInt(address)]
Uint256Word(n) == [uint |-> n]
Bytes32Word(hex) == [bytes32 |-> toLowerCase(SubSeq(hex, 3, Len(hex)))]

\* mutant: the two packed gas fields change places
computeUserOpHashGasSwapped(op) ==
    LET packed == << AddressWord(op.sender), Uint256Word(BigInt(op.nonce)),
                     keccak256(op.initCode), keccak256(op.callData),
                     Bytes32Word(op.gasFees), Uint256Word(BigInt(op.preVerificationGas)),
                     Bytes32Word(op.accountGasLimits), keccak256(op.paymasterAndData) >>
        packedHash == keccak256Tuple(packed)
        final == <<packedHash, AddressWord(ENTRYPOINT), Uint256Word(BigIntOfNumber(CHAIN_ID))>>
    IN  keccak256Tuple(final)

\* userop.ts:161-188
computeUserOpHash(op) ==
    LET packed == << AddressWord(op.sender), Uint256Word(BigInt(op.nonce)),
                     keccak256(op.initCode), keccak256(op.callData),
                     Bytes32Word(op.accountGasLimits), Uint256Word(BigInt(op.preVerificationGas)),
                     Bytes32Word(op.gasFees), keccak256(op.paymasterAndData) >>
        packedHash == keccak256Tuple(packed)
        final == <<packedHash, AddressWord(ENTRYPOINT), Uint256Word(BigIntOfNumber(CHAIN_ID))>>
    IN  keccak256Tuple(final)

HashSenders == {<<"0", "x">> \o Rep("1", 40), <<"0", "x">> \o Rep("A", 20) \o Rep("b", 20)}
HashNonces == {<<"0", "x", "0">>, <<"0", "x", "1">>, <<"0", "x", "1", "0", "0">>}
HashCallData == {<<"0", "x">>, <<"0", "x", "e", "9", "a", "e">>}
HashPaymasters == {<<"0", "x">>, <<"0", "x", "0", "1">>}
HashSignatures == {<<"0", "x">>, <<"0", "x", "f", "f">>}
HashOps ==
    { [ sender |-> a, nonce |-> n, initCode |-> <<"0", "x">>, callData |-> c,
        accountGasLimits |-> packGas(Reverse(<<1, 14, 8, 4, 8, 0>>), Reverse(<<1, 8, 6, 10, 0>>)),
        preVerificationGas |-> <<"0", "x", "1", "8", "6", "a", "0">>,
        gasFees |-> packGas(Reverse(<<3, 11, 9, 10, 12, 10, 0, 0>>), Reverse(<<2, 5, 4, 0, 11, 14, 4, 0, 0>>)),
        paymasterAndData |-> p, signature |-> g ] :
      a \in HashSenders, n \in HashNonces, c \in HashCallData, p \in HashPaymasters,
      g \in HashSignatures }

HashCalls == {[fn |-> "hash", arg |-> op, other |-> o] : op \in HashOps, o \in HashOps}

HashInit ==
    /\ AppInit
    /\ RemoteInit
    /\ call \in HashCalls
    /\ ret = <<>>

ComputeHashCall ==
    /\ call.fn = "hash"
    /\ ret = <<>>
    /\ ret' = <<computeUserOpHash(call.arg)>>
    /\ UNCHANGED <<appVars, call>>
    /\ UNCHANGED unchangedRemote

\* another record is hashed in between
ComputeHashOtherCall ==
    /\ call.fn = "hash"
    /\ Len(ret) = 1
    /\ ret' = Append(ret, computeUserOpHash(call.other))
    /\ UNCHANGED <<appVars, call>>
    /\ UNCHANGED unchangedRemote

\* the first record is hashed again
ComputeHashAgainCall ==
    /\ call.fn = "hash"
    /\ Len(ret) = 2
    /\ ret' = Append(ret, computeUserOpHash(call.arg))
    /\ UNCHANGED <<appVars, call>>
    /\ UNCHANGED unchangedRemote

HashNext ==
    \/ ComputeHashCall
    \/ ComputeHashOtherCall
    \/ ComputeHashAgainCall

HashSpec == HashInit /\ [][HashNext]_vars

\* The validating authority's definition, on the values a record denotes.
BytesOf(hex) == toLowerCase(SubSeq(hex, 3, Len(hex)))
AuthorityH1(op) ==
    [keccakOfTuple |->
        << [uint |-> QuantityValue(op.sender)], [uint |-> QuantityValue(op.nonce)],
           [keccakOfBytes |-> BytesOf(op.initCode)], [keccakOfBytes |-> BytesOf(op.callData)],
           [bytes32 |-> BytesOf(op.accountGasLimits)],
           [uint |-> QuantityValue(op.preVerificationGas)],
           [bytes32 |-> BytesOf(op.gasFees)], [keccakOfBytes |-> BytesOf(op.paymasterAndData)] >>]
AuthorityH2(op, authority, chainId) ==
    [keccakOfTuple |-> <<AuthorityH1(op), [uint |-> QuantityValue(authority)], [uint |-> chainId]>>]
SameButSignature(a, b) == [a EXCEPT !.signature = <<>>] = [b EXCEPT !.signature = <<>>]

\* C11: the hash of every record is keccak(abi(H1, entry point, chain id))
\* with H1 the hash of the tuple of its fields, the variable-length ones
\* hashed first; records that differ only in their signature have the same
\* hash, and hashing a record again gives the same hash.
C11_HashIsTwoStage ==
    (call.fn = "hash" /\ Len(ret) >= 1)
        => /\ ret[1] = AuthorityH2(call.arg, ENTRYPOINT, Reverse(<<6, 4, 10, 11, 10>>))
           /\ (Len(ret) >= 2 /\ SameButSignature(call.arg, call.other)) => ret[2] = ret[1]
           /\ Len(ret) = 3 => ret[3] = ret[1]
C11_Witness ==
    /\ call.fn = "hash"
    /\ call.arg.signature # call.other.signature
    /\ SameButSignature(call.arg, call.other)
    /\ call.arg.callData = <<"0", "x", "e", "9", "a", "e">>
    /\ Len(ret) = 3
    /\ ret[3] = ret[2]

---------------------------------------------------------------------------
\* The validator module, evm/src/PQValidatorModule.sol.
\*
\* bytes and addresses are sequences of byte values, a bytes32 is the record
\* of its 32 bytes, and keccak256 of a byte string is the term of what was
\* hashed.  The Stylus verifier is the environment: verify is a function of
\* its three arguments, true exactly for the signature the holder of the
\* public key makes over the message.  A call that reverts leaves the
\* storage as it was.

\* PQValidatorModule.sol:29: data.length != 1952
mlDsaPublicKeyLength == 1952
\* PQValidatorModule.sol:6: the ERC-7579 validation results
VALIDATION_SUCCESS == 0
VALIDATION_FAILED == 1
\* PQValidatorModule.sol:14-15
ERC1271_VALID == <<22, 38, 186, 126>>
ERC1271_INVALID == <<255, 255, 255, 255>>

\* what an external call ends with
Result(v) == [reverted |-> FALSE, error |-> "", value |-> <<v>>]
Revert(e) == [reverted |-> TRUE, error |-> e, value |-> <<>>]

\* the 20 bytes of an address
AddressNames == <<"account1", "account2", "dead", "validator">>
AddressBytes(name) == Rep(CHOOSE i \in 1..4 : AddressNames[i] = name, 20)
\* address(this)
ModuleAddress == "validator"

\* the 32 big-endian bytes of a uint256
RECURSIVE BigEndian(_, _)
BigEndian(n, width) ==
    IF width = 0 THEN <<>> ELSE BigEndian(n \div 256, width - 1) \o <<n % 256>>
Bytes32(bytes) == [bytes32 |-> bytes]

\* keccak256 of a byte string
solidityKeccak256(bytes) == [keccakOfBytes |-> bytes]

\* abi.encodePacked(address, uint256, address, address, bytes32),
\* PQValidatorModule.sol:68
encodePacked(this, chainid, account, sender, hash) ==
    AddressBytes(this) \o BigEndian(chainid, 32) \o AddressBytes(account)
        \o AddressBytes(sender) \o hash.bytes32

\* IMLDSAVerifier.verify, interfaces/IMLDSAVerifier.sol:8-12
MlDsaSignature(publicKey, message) == [signedBy |-> publicKey, over |-> message]
verify(publicKey, message, signature) == signature = MlDsaSignature(publicKey, message)
VerifierCall(publicKey, message, signature) ==
    [publicKey |-> publicKey, message |-> message, signature |-> signature]

\* PQValidatorModule.sol:39-41
isInitialized(keys, smartAccount) == Len(keys[smartAccount]) > 0

\* mutant: the length of the key is not tested
onInstallAnyLength(keys, msgSender, data) ==
    IF isInitialized(keys, msgSender)
      THEN [out |-> Revert("AlreadyInitialized"), publicKeys |-> keys]
    ELSE [out |-> Result("void"), publicKeys |-> [keys EXCEPT ![msgSender] = data]]

\* mutant: one key for all accounts
onInstallSharedKey(keys, msgSender, data) ==
    IF isInitialized(keys, msgSender)
      THEN [out |-> Revert("AlreadyInitialized"), publicKeys |-> keys]
    ELSE IF Len(data) # mlDsaPublicKeyLength
      THEN [out |-> Revert("InvalidMLDSAPublicKeyLength"), publicKeys |-> keys]
    ELSE [out |-> Result("void"), publicKeys |-> [a \in DOMAIN keys |-> data]]

\* PQValidatorModule.sol:27-32
onInstall(keys, msgSender, data) ==
    IF isInitialized(keys, msgSender)
      THEN [out |-> Revert("AlreadyInitialized"), publicKeys |-> keys]
    ELSE IF Len(data) # mlDsaPublicKeyLength
      THEN [out |-> Revert("InvalidMLDSAPublicKeyLength"), publicKeys |-> keys]
    ELSE [out |-> Result("void"), publicKeys |-> [keys EXCEPT ![msgSender] = data]]

\* mutant: uninstall does not test that a key is installed
onUninstallUnchecked(keys, msgSender, data) ==
    [out |-> Result("void"), publicKeys |-> [keys EXCEPT ![msgSender] = NoKey]]

\* PQValidatorModule.sol:34-37
onUninstall(keys, msgSender, data) ==
    IF ~isInitialized(keys, msgSender)
      THEN [out |-> Revert("NotInitialized"), publicKeys |-> keys]
    ELSE [out |-> Result("void"), publicKeys |-> [keys EXCEPT ![msgSender] = NoKey]]

\* mutant: the verifier is asked whether or not a key is installed
validateUserOpNoKeyTest(keys, msgSender, signature, userOpHash) ==
    LET isVerified == verify(keys[msgSender], userOpHash, signature)
    IN  [ out |-> Result(IF isVerified THEN VALIDATION_SUCCESS ELSE VALIDATION_FAILED),
          verifierCalls |-> <<VerifierCall(keys[msgSender], userOpHash, signature)>> ]

\* PQValidatorModule.sol:47-56, signature being userOp.signature
validateUserOp(keys, msgSender, signature, userOpHash) ==
    IF ~isInitialized(keys, msgSender)
      THEN [out |-> Result(VALIDATION_FAILED), verifierCalls |-> <<>>]
    ELSE LET mlDSAPubKey == keys[msgSender]
             isVerified  == verify(mlDSAPubKey, userOpHash, signature)
         IN  [ out |-> Result(IF isVerified THEN VALIDATION_SUCCESS ELSE VALIDATION_FAILED),
               verifierCalls |-> <<VerifierCall(mlDSAPubKey, userOpHash, signature)>> ]

\* mutant: the hash is verified as it was passed
isValidSignatureRawHash(keys, chainid, msgSender, sender, hash, signature) ==
    IF ~isInitialized(keys, msgSender)
      THEN [out |-> Result(ERC1271_INVALID), verifierCalls |-> <<>>]
    ELSE LET mlDSAPubKey == keys[msgSender]
             isVerified  == verify(mlDSAPubKey, hash, signature)
         IN  [ out |-> Result(IF isVerified THEN ERC1271_VALID ELSE ERC1271_INVALID),
               verifierCalls |-> <<VerifierCall(mlDSAPubKey, hash, signature)>> ]

\* PQValidatorModule.sol:60-72, on the chain with id chainid
isValidSignatureWithSender(keys, chainid, msgSender, sender, hash, signature) ==
    IF ~isInitialized(keys, msgSender)
      THEN [out |-> Result(ERC1271_INVALID), verifierCalls |-> <<>>]
    ELSE LET mlDSAPubKey == keys[msgSender]
             senderBoundHash ==
                 solidityKeccak256(encodePacked(ModuleAddress, chainid, msgSender, sender, hash))
             isVerified  == verify(mlDSAPubKey, senderBoundHash, signature)
         IN  [ out |-> Result(IF isVerified THEN ERC1271_VALID ELSE ERC1271_INVALID),
               verifierCalls |-> <<VerifierCall(mlDSAPubKey, senderBoundHash, signature)>> ]

\* The inputs of the calls.
InstallData ==
    { Rep(1, mlDsaPublicKeyLength), Rep(2, mlDsaPublicKeyLength),
      Rep(1, mlDsaPublicKeyLength - 1), Rep(1, mlDsaPublicKeyLength + 1), <<>> }
Senders == {"account1", "dead"}
ChainIds == {CHAIN_ID, 42161}
Hashes == {Bytes32(Rep(0, 32)), Bytes32(Rep(0, 31) \o <<1>>)}
\* signatures of the holder of the first key: over a hash as it is, and over
\* that hash bound to account1 asked by sender "dead" on the configured chain
SenderBoundHashes ==
    { solidityKeccak256(encodePacked(ModuleAddress, CHAIN_ID, "account1", "dead",
                                     Bytes32(Rep(0, 31) \o <<1>>))) }
ModuleSignatures ==
    { MlDsaSignature(Rep(1, mlDsaPublicKeyLength), m) :
        m \in {Bytes32(Rep(0, 31) \o <<1>>)} \cup SenderBoundHashes }
        \cup {[sigBytes |-> <<222, 173, 190, 239>>]}

Called(c, r) == <<[call |-> c, out |-> r.out, verifierCalls |-> r.verifierCalls]>>
unchangedByModule == <<appVars, snapState, snapReqs>>

OnInstallCall(msgSender, data) ==
    /\ LET r == onInstall(publicKeys, msgSender, data)
       IN  /\ publicKeys' = r.publicKeys
           /\ call' = [fn |-> "onInstall", msgSender |-> msgSender, data |-> data]
           /\ ret' = Called(call', [out |-> r.out, verifierCalls |-> <<>>])
    /\ UNCHANGED unchangedByModule

OnUninstallCall(msgSender, data) ==
    /\ LET r == onUninstall(publicKeys, msgSender, data)
       IN  /\ publicKeys' = r.publicKeys
           /\ call' = [fn |-> "onUninstall", msgSender |-> msgSender, data |-> data]
           /\ ret' = Called(call', [out |-> r.out, verifierCalls |-> <<>>])
    /\ UNCHANGED unchangedByModule

IsInitializedCall(smartAccount) ==
    /\ call' = [fn |-> "isInitialized", smartAccount |-> smartAccount]
    /\ ret' = Called(call', [out |-> Result(isInitialized(publicKeys, smartAccount)),
                             verifierCalls |-> <<>>])
    /\ UNCHANGED publicKeys
    /\ UNCHANGED unchangedByModule

ValidateUserOpCall(msgSender, signature, userOpHash) ==
    /\ call' = [fn |-> "validateUserOp", msgSender |-> msgSender,
                signature |-> signature, userOpHash |-> userOpHash]
    /\ ret' = Called(call', validateUserOp(publicKeys, msgSender, signature, userOpHash))
    /\ UNCHANGED publicKeys
    /\ UNCHANGED unchangedByModule

IsValidSignatureWithSenderCall(chainid, msgSender, sender, hash, signature) ==
    /\ call' = [fn |-> "isValidSignatureWithSender", chainid |-> chainid,
                msgSender |-> msgSender, sender |-> sender, hash |-> hash,
                signature |-> signature]
    /\ ret' = Called(call', isValidSignatureWithSender(publicKeys, chainid, msgSender,
                                                       sender, hash, signature))
    /\ UNCHANGED publicKeys
    /\ UNCHANGED unchangedByModule

ModuleNext ==
    \/ \E a \in Accounts, data \in InstallData : OnInstallCall(a, data)
    \/ \E a \in Accounts : OnUninstallCall(a, <<>>)
    \/ \E a \in Accounts : IsInitializedCall(a)
    \/ \E a \in Accounts, g \in ModuleSignatures, h \in Hashes : ValidateUserOpCall(a, g, h)
    \/ \E c \in ChainIds, a \in Accounts, s \in Senders, h \in Hashes, g \in ModuleSignatures :
          IsValidSignatureWithSenderCall(c, a, s, h, g)

ModuleSpec == Init /\ [][ModuleNext]_vars

\* C25: validateUserOp answers VALIDATION_FAILED without a call of the
\* verifier when the calling account has no key; otherwise it calls the
\* verifier once, with the caller's key, the hash and the operation's
\* signature, and answers VALIDATION_SUCCESS exactly when the verifier
\* accepts; it leaves the stored keys as they are.
C25_ValidateUserOp ==
    [][call'.fn = "validateUserOp"
          => LET key == publicKeys[call'.msgSender]
                 r   == ret'[1]
             IN  /\ publicKeys' = publicKeys
                 /\ ~r.out.reverted
                 /\ IF key = NoKey
                      THEN /\ r.out.value = <<VALIDATION_FAILED>>
                           /\ r.verifierCalls = <<>>
                      ELSE /\ r.verifierCalls
                                = <<VerifierCall(key, call'.userOpHash, call'.signature)>>
                           /\ r.out.value \in {<<VALIDATION_SUCCESS>>, <<VALIDATION_FAILED>>}
                           /\ (r.out.value = <<VALIDATION_SUCCESS>>)
                                <=> verify(key, call'.userOpHash, call'.signature)]_vars
C25_Witness ==
    /\ call.fn = "validateUserOp"
    /\ publicKeys[call.msgSender] = Rep(1, mlDsaPublicKeyLength)
    /\ call.signature = MlDsaSignature(publicKeys[call.msgSender], call.userOpHash)
    /\ ret[1].out.value = <<VALIDATION_SUCCESS>>
    /\ Len(ret[1].verifierCalls) = 1

\* C26: onInstall reverts and leaves every stored key as it was when the
\* caller already has a key or the data is not 1952 bytes long, and otherwise
\* stores the data as the caller's key; so every stored key is absent or
\* 1952 bytes long.
C26_OnInstall ==
    /\ [](\A a \in Accounts : publicKeys[a] = <<>> \/ Len(publicKeys[a]) = 1952)
    /\ [][call'.fn = "onInstall"
            => IF publicKeys[call'.msgSender] # <<>> \/ Len(call'.data) # 1952
                 THEN /\ ret'[1].out.reverted
                      /\ publicKeys' = publicKeys
                 ELSE /\ ~ret'[1].out.reverted
                      /\ publicKeys' = [publicKeys EXCEPT ![call'.msgSender] = call'.data]]_vars
C26_Witness ==
    /\ call.fn = "onInstall"
    /\ call.msgSender = "account2"
    /\ ~ret[1].out.reverted
    /\ Len(call.data) = 1952
    /\ publicKeys["account2"] = call.data
    /\ publicKeys["account1"] # <<>>
    /\ publicKeys["account1"] # call.data

\* C27: onUninstall reverts when the caller has no key and otherwise deletes
\* it: then isInitialized(caller) is false, validateUserOp for the caller
\* answers VALIDATION_FAILED whatever the signature, and an onInstall by the
\* caller with a key of the right length succeeds.  An installed key never
\* changes into another key: it can only be deleted, by its account's
\* onUninstall.
C27_OnUninstall ==
    /\ [][call'.fn = "onUninstall"
            => IF publicKeys[call'.msgSender] = <<>>
                 THEN /\ ret'[1].out.reverted
                      /\ publicKeys' = publicKeys
                 ELSE /\ ~ret'[1].out.reverted
                      /\ publicKeys' = [publicKeys EXCEPT ![call'.msgSender] = <<>>]
                      /\ ~isInitialized(publicKeys', call'.msgSender)
                      /\ \A g \in ModuleSignatures, h \in Hashes :
                            validateUserOp(publicKeys', call'.msgSender, g, h).out.value
                                = <<VALIDATION_FAILED>>
                      /\ \A data \in InstallData :
                            Len(data) = 1952
                                => LET again == onInstall(publicKeys', call'.msgSender, data)
                                   IN  /\ ~again.out.reverted
                                       /\ again.publicKeys[call'.msgSender] = data]_vars
    /\ [][\A a \in Accounts :
            (publicKeys[a] # <<>> /\ publicKeys'[a] # publicKeys[a])
                => /\ publicKeys'[a] = <<>>
                   /\ call'.fn = "onUninstall"
                   /\ call'.msgSender = a]_vars
C27_Witness ==
    /\ call.fn = "onUninstall"
    /\ call.msgSender = "account1"
    /\ ~ret[1].out.reverted
    /\ publicKeys["account1"] = <<>>
    /\ publicKeys["account2"] # <<>>

\* keccak256(validator address || chain id || calling account || sender || hash)
SenderBound(c) ==
    [keccakOfBytes |-> AddressBytes("validator") \o BigEndian(c.chainid, 32)
                         \o AddressBytes(c.msgSender) \o AddressBytes(c.sender)
                         \o c.hash.bytes32]
SameContext(c1, c2) ==
    c1.chainid = c2.chainid /\ c1.msgSender = c2.msgSender /\ c1.sender = c2.sender

\* C28: isValidSignatureWithSender gives the verifier the sender-bound hash
\* and never the hash it was passed; it answers the ERC-1271 valid value
\* exactly when the caller has a key and the verifier accepts the bound
\* hash; two calls that differ in account, sender or chain id give the
\* verifier different hashes.
C28_SenderBoundHash ==
    [][call'.fn = "isValidSignatureWithSender"
          => LET key == publicKeys[call'.msgSender]
                 r   == ret'[1]
             IN  /\ publicKeys' = publicKeys
                 /\ \A k \in DOMAIN r.verifierCalls :
                       /\ r.verifierCalls[k].message = SenderBound(call')
                       /\ r.verifierCalls[k].message # call'.hash
                 /\ key # <<>> => Len(r.verifierCalls) = 1
                 /\ r.out.value \in {<<ERC1271_VALID>>, <<ERC1271_INVALID>>}
                 /\ (r.out.value = <<ERC1271_VALID>>)
                      <=> (key # <<>> /\ verify(key, SenderBound(call'), call'.signature))
                 /\ ( /\ call.fn = "isValidSignatureWithSender"
                      /\ ~SameContext(call, call')
                      /\ ret[1].verifierCalls # <<>>
                      /\ r.verifierCalls # <<>> )
                      => ret[1].verifierCalls[1].message # r.verifierCalls[1].message]_vars
C28_Witness ==
    /\ call.fn = "isValidSignatureWithSender"
    /\ call.msgSender = "account1"
    /\ call.sender = "dead"
    /\ ret[1].out.value = <<ERC1271_VALID>>
    /\ ret[1].verifierCalls[1].message # call.hash
    /\ call.signature.over = ret[1].verifierCalls[1].message

\* C29: an onInstall or onUninstall of one account changes nothing for any
\* other account: not its stored key, not isInitialized, not the answers of
\* validateUserOp and isValidSignatureWithSender.
C29_AccountsIsolated ==
    [][call'.fn \in {"onInstall", "onUninstall"}
          => \A a \in Accounts \ {call'.msgSender} :
                /\ publicKeys'[a] = publicKeys[a]
                /\ isInitialized(publicKeys', a) = isInitialized(publicKeys, a)
                /\ \A g \in ModuleSignatures, h \in Hashes :
                      /\ validateUserOp(publicKeys', a, g, h) = validateUserOp(publicKeys, a, g, h)
                      /\ \A c \in ChainIds, s \in Senders :
                            isValidSignatureWithSender(publicKeys', c, a, s, h, g)
                                = isValidSignatureWithSender(publicKeys, c, a, s, h, g)]_vars
C29_Witness ==
    /\ call.fn = "onUninstall"
    /\ call.msgSender = "account2"
    /\ ~ret[1].out.reverted
    /\ publicKeys["account2"] = <<>>
    /\ publicKeys["account1"] = Rep(1, 1952)

---------------------------------------------------------------------------
\* The snap: onRpcRequest (pq-snap/src/index.ts:35-60), the handlers of
\* handlers/sign.ts and handlers/keys.ts, and state.ts.
\*
\* A handler is cut at its awaits.  snap_manageState requests are served in
\* the order they are made: a get returns the state stored when it was
\* made, an update stores its state when it is made.  Each request keeps
\* what its handler holds in local variables: the keypair it read, the state
\* object it is working on, the answer to its dialog, the signature made.

\* RPC requests the snap is sent
MaxSnapRequests == 3

\* sign.ts:78: userOpHashBytes.length !== 32
snapUserOpHashLength == 32

\* state.ts:82-88: a stored keypair; key 1 is the keypair derived from the
\* snap's entropy
StoredKeypair(key, nonce) == [stored |-> TRUE, key |-> key, nonce |-> nonce]

\* crypto sign / signUserOp (part_006:277-315) with the stored secret key
cryptoSign(key, message) == <<[signedWith |-> key, over |-> message]>>
\* the signing primitive returns, or throws (part_006:286-290)
SignOutcomes == {"signs", "throws"}

SnapReq(method, arg, chainId) ==
    [ method |-> method, arg |-> arg, chainId |-> chainId,
      pc |-> "getKeypair", state |-> snapState,
      keypair |-> NoSnapKeypair, bytes |-> <<>>, confirmed |-> "unasked",
      signature |-> <<>>, nonce |-> 0, kind |-> "pending", error |-> "",
      created |-> FALSE ]
SnapThrows(req, msg) == [req EXCEPT !.pc = "settled", !.kind = "error", !.error = msg]
SnapReturns(req) == [req EXCEPT !.pc = "settled", !.kind = "result"]
SnapAt(i, pc) == i \in DOMAIN snapReqs /\ snapReqs[i].pc = pc
SignMethods == {"pq_signMessage", "pq_signUserOp"}

\* mutant: the answer to the dialog is not looked at
userRejectedNever(confirmed) == FALSE

\* sign.ts:45, 101 and keys.ts:64:  if (!confirmed) throw
userRejected(confirmed) == ~confirmed

\* The handler up to its first await, the get of getKeypair
\* (sign.ts:16-20, 68-72; keys.ts:30-33).  arg is params.message,
\* params.userOpHash or params.create; chainId is params.chainId, 0 when the
\* request has none.
SnapRpcRequest(method, arg, chainId) ==
    /\ Len(snapReqs) < MaxSnapRequests
    /\ LET req == SnapReq(method, arg, chainId)
       IN  snapReqs' = Append(snapReqs,
              IF method = "pq_signMessage" /\ arg = <<>>
                THEN SnapThrows(req, "Message required")
              ELSE IF method = "pq_signUserOp" /\ arg = <<>>
                THEN SnapThrows(req, "userOpHash required")
              ELSE req)
    /\ UNCHANGED <<appVars, call, ret, publicKeys, snapState>>

\* getKeypair resolved (state.ts:67-70): sign.ts:21-43, 73-99; keys.ts:35-62
handleAfterGetKeypair(req) ==
    LET keypair == req.state.keypair
    IN  IF req.method = "pq_getPublicKey"
          THEN IF keypair.stored
                 THEN SnapReturns([req EXCEPT !.keypair = keypair, !.created = FALSE])
               ELSE IF req.arg = FALSE
                 THEN SnapThrows(req, "No keypair exists. Set create=true to generate one.")
               ELSE [req EXCEPT !.pc = "dialog", !.confirmed = "asked"]
        ELSE IF ~keypair.stored
          THEN SnapThrows(req, "No keypair. Call pq_getPublicKey first.")
        ELSE LET decoded == cryptoHexToBytes(req.arg)
             IN  IF ~decoded.ok THEN SnapThrows(req, decoded.error)
                 ELSE IF req.method = "pq_signUserOp"
                         /\ Len(decoded.bytes) # snapUserOpHashLength
                   THEN SnapThrows(req, "userOpHash must be 32 bytes")
                 ELSE [req EXCEPT !.pc = "dialog", !.confirmed = "asked",
                                  !.keypair = keypair, !.bytes = decoded.bytes]

SnapKeypairResolved(i) ==
    /\ SnapAt(i, "getKeypair")
    /\ snapReqs' = [snapReqs EXCEPT ![i] = handleAfterGetKeypair(@)]
    /\ UNCHANGED <<appVars, call, ret, publicKeys, snapState>>

\* snap_dialog resolved: sign.ts:45-54, 101-106; keys.ts:64-69.  Whoever
\* goes on makes the next request: the get of incrementNonce (state.ts:97)
\* or snap_getEntropy (part_006:255).
handleAfterDialog(req, confirmed, signing) ==
    IF userRejected(confirmed)
      THEN SnapThrows([req EXCEPT !.confirmed = "no"],
                      IF req.method = "pq_signMessage" THEN "User rejected signing request"
                      ELSE IF req.method = "pq_signUserOp"
                        THEN "User rejected transaction signing"
                      ELSE "User rejected keypair generation")
    ELSE LET answered == [req EXCEPT !.confirmed = IF confirmed THEN "yes" ELSE "no"]
         IN  IF req.method = "pq_signMessage"
               THEN IF signing = "throws"
                      THEN SnapThrows(answered, "Invalid secret key size")
                    ELSE [answered EXCEPT !.signature = cryptoSign(req.keypair.key, req.bytes),
                                          !.state = snapState, !.pc = "incGet"]
             ELSE IF req.method = "pq_signUserOp"
               THEN [answered EXCEPT !.state = snapState, !.pc = "incGet"]
             ELSE [answered EXCEPT !.pc = "entropy"]

SnapDialogAnswered(i, confirmed, signing) ==
    /\ SnapAt(i, "dialog")
    /\ snapReqs' = [snapReqs EXCEPT ![i] = handleAfterDialog(@, confirmed, signing)]
    /\ UNCHANGED <<appVars, call, ret, publicKeys, snapState>>

\* incrementNonce after its getState (state.ts:99-106): the update is made
IncrementNonceGot(i) ==
    /\ SnapAt(i, "incGet")
    /\ LET req == snapReqs[i]
       IN  IF ~req.state.keypair.stored
             THEN /\ snapReqs' = [snapReqs EXCEPT ![i] = SnapThrows(req, "No keypair stored")]
                  /\ UNCHANGED snapState
             ELSE LET state == [req.state EXCEPT !.keypair.nonce = @ + 1]
                  IN  /\ snapState' = state
                      /\ snapReqs' = [snapReqs EXCEPT ![i] =
                            [req EXCEPT !.nonce = req.state.keypair.nonce,
                                        !.state = state, !.pc = "incSet"]]
    /\ UNCHANGED <<appVars, call, ret, publicKeys>>

\* incrementNonce returned: sign.ts:56-59, 108-115
IncrementNonceDone(i, signing) ==
    /\ SnapAt(i, "incSet")
    /\ LET req == snapReqs[i]
       IN  snapReqs' = [snapReqs EXCEPT ![i] =
              IF req.method = "pq_signUserOp"
                THEN IF signing = "throws"
                       THEN SnapThrows(req, "Invalid secret key size")
                     ELSE SnapReturns([req EXCEPT !.signature =
                                           cryptoSign(req.keypair.key, req.bytes)])
              ELSE SnapReturns(req)]
    /\ UNCHANGED <<appVars, call, ret, publicKeys, snapState>>

\* snap_getEntropy resolved: the keypair is derived and saveKeypair makes its
\* get (part_006:264-266, keys.ts:69-72, state.ts:80)
SnapEntropyResolved(i) ==
    /\ SnapAt(i, "entropy")
    /\ snapReqs' = [snapReqs EXCEPT ![i] =
          [@ EXCEPT !.keypair = StoredKeypair(1, 0), !.state = snapState, !.pc = "saveGet"]]
    /\ UNCHANGED <<appVars, call, ret, publicKeys, snapState>>

\* saveKeypair after its getState (state.ts:82-90): the update is made
SaveKeypairGot(i) ==
    /\ SnapAt(i, "saveGet")
    /\ LET req   == snapReqs[i]
           state == [req.state EXCEPT !.keypair = StoredKeypair(req.keypair.key, 0)]
       IN  /\ snapState' = state
           /\ snapReqs' = [snapReqs EXCEPT ![i] = [req EXCEPT !.state = state, !.pc = "saveSet"]]
    /\ UNCHANGED <<appVars, call, ret, publicKeys>>

\* saveKeypair returned: keys.ts:74-78
SaveKeypairDone(i) ==
    /\ SnapAt(i, "saveSet")
    /\ snapReqs' = [snapReqs EXCEPT ![i] = SnapReturns([@ EXCEPT !.created = TRUE])]
    /\ UNCHANGED <<appVars, call, ret, publicKeys, snapState>>

\* what the dapp puts in params.message and params.userOpHash
SnapHexArgs ==
    { <<>>, <<"0", "x">> \o Rep("a", 64), <<"0", "x">> \o Rep("a", 32),
      <<"0", "x", "a", "b", "c">> }
SnapRequestIds == 1..MaxSnapRequests

\* params.chainId of pq_signUserOp
SnapChainIds == {CHAIN_ID, 42161}

SnapNext ==
    \/ \E arg \in SnapHexArgs : SnapRpcRequest("pq_signMessage", arg, 0)
    \/ \E arg \in SnapHexArgs, chainId \in SnapChainIds :
          SnapRpcRequest("pq_signUserOp", arg, chainId)
    \/ \E create \in BOOLEAN : SnapRpcRequest("pq_getPublicKey", create, 0)
    \/ \E i \in SnapRequestIds :
          \/ SnapKeypairResolved(i)
          \/ \E confirmed \in BOOLEAN, signing \in SignOutcomes :
                SnapDialogAnswered(i, confirmed, signing)
          \/ IncrementNonceGot(i)
          \/ \E signing \in SignOutcomes : IncrementNonceDone(i, signing)
          \/ SnapEntropyResolved(i)
          \/ SaveKeypairGot(i)
          \/ SaveKeypairDone(i)

SnapSpec == Init /\ [][SnapNext]_vars

\* C30: a pq_signMessage or pq_signUserOp request has a signature made or
\* returned only once the user confirmed the dialog of that request, and the
\* signature is over that request's bytes; a request the user declined has
\* no signature and ends in an error.
C30_SignatureNeedsConfirmation ==
    \A i \in DOMAIN snapReqs :
        LET req == snapReqs[i]
        IN  req.method \in SignMethods
              => /\ (req.signature # <<>> \/ req.kind = "result") => req.confirmed = "yes"
                 /\ req.confirmed = "no" => (req.signature = <<>> /\ req.kind = "error")
                 /\ req.kind = "result"
                      => /\ Len(req.signature) = 1
                         /\ req.signature[1].over = DecodePairs(StripPrefix(req.arg))
C30_Witness ==
    \E i, j \in DOMAIN snapReqs :
        /\ snapReqs[i].method = "pq_signUserOp"
        /\ snapReqs[i].confirmed = "no"
        /\ snapReqs[i].kind = "error"
        /\ snapReqs[j].method = "pq_signUserOp"
        /\ snapReqs[j].arg = snapReqs[i].arg
        /\ snapReqs[j].confirmed = "yes"
        /\ snapReqs[j].kind = "result"
        /\ snapReqs[j].signature # <<>>

SignResponses ==
    {i \in DOMAIN snapReqs : snapReqs[i].method \in SignMethods /\ snapReqs[i].kind = "result"}
KeypairsSaved ==
    {i \in DOMAIN snapReqs : snapReqs[i].method = "pq_getPublicKey" /\ snapReqs[i].created}
SnapQuiescent == \A i \in DOMAIN snapReqs : snapReqs[i].pc = "settled"

\* C31: no two signature responses report the same nonce, and once every
\* request has settled, none of them having failed after its dialog was
\* confirmed, the stored counter is the number of signatures issued since
\* the keypair was saved.
C31_NonceCountsSignatures ==
    /\ \A i, j \in SignResponses : i # j => snapReqs[i].nonce # snapReqs[j].nonce
    /\ ( /\ SnapQuiescent
          /\ Cardinality(KeypairsSaved) = 1 /\ snapReqs[1].created
          /\ \A i \in DOMAIN snapReqs : snapReqs[i].confirmed = "yes" => snapReqs[i].kind = "result" )
          => snapState.keypair.nonce = Cardinality(SignResponses)

UserOpResponses == {i \in SignResponses : snapReqs[i].method = "pq_signUserOp"}

\* C32: pq_signUserOp signs the digest of userOpHash, chainId and nonce, so
\* the message signed is not the userOpHash itself, and two responses for
\* the same userOpHash with different chainId or nonce carry signatures
\* over different messages.
C32_DomainSeparation ==
    /\ \A i \in UserOpResponses : snapReqs[i].signature[1].over # snapReqs[i].bytes
    /\ \A i, j \in UserOpResponses :
          ( /\ snapReqs[i].bytes = snapReqs[j].bytes
            /\ \/ snapReqs[i].chainId # snapReqs[j].chainId
               \/ snapReqs[i].nonce # snapReqs[j].nonce )
            => snapReqs[i].signature[1].over # snapReqs[j].signature[1].over

\* C34: a step of a pq_getPublicKey handler leaves the stored state as it is
\* when a keypair is stored, and answers with that keypair and created =
\* false when it finds one; it changes the state only when no keypair is
\* stored, create is not false and the user confirmed.
C34_GetPublicKeyKeepsKeypair ==
    [][\A i \in DOMAIN snapReqs :
          (snapReqs[i].method = "pq_getPublicKey" /\ snapReqs'[i] # snapReqs[i])
              => /\ snapState.keypair.stored => snapState' = snapState
                 /\ (snapReqs[i].pc = "getKeypair" /\ snapReqs[i].state.keypair.stored)
                      => /\ snapReqs'[i].kind = "result"
                         /\ ~snapReqs'[i].created
                         /\ snapReqs'[i].keypair.key = snapReqs[i].state.keypair.key
                 /\ snapState' # snapState
                      => /\ ~snapState.keypair.stored
                         /\ snapReqs[i].arg # FALSE
                         /\ snapReqs[i].confirmed = "yes"]_vars

\* C40: a pq_signMessage or pq_signUserOp request that fails has stored
\* nothing: the step at which it fails leaves the stored state as it is, and
\* the request has not made the update of incrementNonce before it.
C40_FailedSignStoresNothing ==
    [][\A i \in DOMAIN snapReqs :
          ( /\ snapReqs[i].method \in SignMethods
            /\ snapReqs[i].kind = "pending"
            /\ snapReqs'[i].kind = "error" )
              => /\ snapState' = snapState
                 /\ snapReqs[i].pc # "incSet"]_vars

\* ---------------------------------------------------------------------
\* crypto verify (part_006:326-348)
\* ---------------------------------------------------------------------

SecurityLevels == {"ml_dsa44", "ml_dsa65", "ml_dsa87"}

\* part_006:209-213
KEY_SIZES ==
    [ ml_dsa44 |-> [publicKey |-> 1312, secretKey |-> 2560, signature |-> 2420],
      ml_dsa65 |-> [publicKey |-> 1952, secretKey |-> 4032, signature |-> 3309],
      ml_dsa87 |-> [publicKey |-> 2592, secretKey |-> 4896, signature |-> 4627] ]

VerifyReturns(v) == [threw |-> FALSE, value |-> <<v>>, error |-> <<>>]
VerifyThrows(what, got, expected) ==
    [threw |-> TRUE, value |-> <<>>,
     error |-> <<[what |-> what, got |-> got, expected |-> expected]>>]

\* algo.verify of the ML-DSA library: true for the signature made over the
\* message with the matching secret key; for any other signature it returns
\* false or throws, whichever the library does (library)
algoVerify(signature, library) ==
    IF signature.kind = "valid" THEN VerifyReturns(TRUE)
    ELSE IF library = "throws" THEN VerifyThrows("library", signature.length, signature.length)
    ELSE VerifyReturns(FALSE)

\* mutant: no try / catch around algo.verify
cryptoVerifyUncaught(publicKeyLength, signature, level, library) ==
    LET sizes == KEY_SIZES[level]
    IN  IF publicKeyLength # sizes.publicKey
          THEN VerifyThrows("Invalid public key size", publicKeyLength, sizes.publicKey)
        ELSE IF signature.length # sizes.signature
          THEN VerifyThrows("Invalid signature size", signature.length, sizes.signature)
        ELSE algoVerify(signature, library)

\* verify (part_006:326-348)
cryptoVerify(publicKeyLength, signature, level, library) ==
    LET sizes == KEY_SIZES[level]
    IN  IF publicKeyLength # sizes.publicKey
          THEN VerifyThrows("Invalid public key size", publicKeyLength, sizes.publicKey)
        ELSE IF signature.length # sizes.signature
          THEN VerifyThrows("Invalid signature size", signature.length, sizes.signature)
        ELSE LET result == algoVerify(signature, library)
             IN  IF result.threw THEN VerifyReturns(FALSE) ELSE result

\* the lengths of part_006:103-123 and of KEY_SIZES
VerifyLengths == {100, 1312, 1952, 2592, 2420, 3293, 3309, 4627}
\* a signature as signed, or one with a byte changed (part_004:99-109)
SignatureKinds == {"valid", "corrupted"}

VerifyCalls ==
    {[fn |-> "verify", level |-> level, publicKeyLength |-> pk,
      signature |-> [length |-> sig, kind |-> kind], library |-> library] :
        level \in SecurityLevels, pk \in VerifyLengths, sig \in VerifyLengths,
        kind \in SignatureKinds, library \in {"false", "throws"}}

VerifyInit ==
    /\ AppInit
    /\ RemoteInit
    /\ call \in VerifyCalls
    /\ ret = <<>>

VerifyCall ==
    /\ call.fn = "verify"
    /\ ret = <<>>
    /\ ret' = <<cryptoVerify(call.publicKeyLength, call.signature, call.level, call.library)>>
    /\ UNCHANGED <<appVars, call>>
    /\ UNCHANGED unchangedRemote

VerifyNext == VerifyCall

VerifySpec == VerifyInit /\ [][VerifyNext]_vars

VerifySized ==
    /\ call.publicKeyLength = KEY_SIZES[call.level].publicKey
    /\ call.signature.length = KEY_SIZES[call.level].signature

C35_SignerOnlyWhileSigning ==
    [](\A t \in DOMAIN tasks : tasks[t].pc = "sign" => tasks[t].st = "signing")
    /\ [][\A t \in DOMAIN tasks :
             (tasks[t].pc = "sign" /\ tasks'[t].pc = "failed")
                 => tasks[t].st = "signing"]_vars

Terminal == {"confirmed", "error"}

\* C36: the step at which an invocation of handleApprove reaches
\* 'confirmed' or 'error' sends one response, to the id and the topic of
\* the request that was pending when Approve was clicked, and none to any
\* other request, whichever request is pending at that step.
C36_OutcomeToApprovedRequest ==
    [][\A t \in DOMAIN tasks :
          (tasks[t].st \notin Terminal /\ tasks'[t].st \in Terminal)
              => LET tx == tasks[t].tx
                 IN  /\ Len(responses'[tx.id]) = Len(responses[tx.id]) + 1
                     /\ responses'[tx.id][Len(responses'[tx.id])].topic = tx.topic
                     /\ \A id \in Ids \ {tx.id} : responses'[id] = responses[id]]_vars

\* the one approved operation was confirmed after another request had
\* replaced the pending one: the status is the one the operation set, not
\* the 'idle' of the arrival
C36_Witness ==
    /\ Len(tasks) = 1
    /\ tasks[1].st = "confirmed"
    /\ txStatus = "confirmed"
    /\ pendingTx # NoTx
    /\ pendingTx.id # tasks[1].tx.id
    /\ ResultsOf(tasks[1].tx.id) # {}

\* C37: every eth_sendTransaction request that arrived is still the pending
\* one, or was approved, or has been sent a response.
C37_PendingAnswered ==
    \A id \in 1..nextId :
        \/ responses[id] # <<>>
        \/ pendingTx.id = id
        \/ \E t \in DOMAIN tasks : tasks[t].tx.id = id

\* ---------------------------------------------------------------------
\* Approve clicked while the signer is not ready (App.tsx:241-252).
\* ---------------------------------------------------------------------

\* clicks on Approve that find the signer not ready
MaxNotReadyClicks == 2

NotReadyClicks == IF call.fn = "handleApprove" THEN call.notReady ELSE 0

\* handleApprove through its early return, App.tsx:242-252: a line is logged
\* and nothing else is done.  call counts the clicks.
HandleApproveNotReady ==
    /\ ~InSync
    /\ isPending
    /\ wk
    /\ ~signerReady
    /\ NotReadyClicks < MaxNotReadyClicks
    /\ call' = [fn |-> "handleApprove", notReady |-> NotReadyClicks + 1]
    /\ UNCHANGED <<appVars, ret>>
    /\ UNCHANGED unchangedRemote

ApproveNext ==
    \/ Environment(1)
    \/ TaskStep(1, LateClock)
    \/ HandleApproveNotReady

ApproveSpec == Init /\ [][ApproveNext]_vars

\* the signer of the selected mode is not ready, from the state itself
ActiveSignerNotReady ==
    \/ signerMode = "seed" /\ ~seedSignerReady
    \/ signerMode = "snap" /\ ~snapConnected

\* C39: while the active signer is not ready no invocation of the pipeline
\* starts, and a click on Approve leaves the status, the pending request, the
\* calls made to authority, signer and relay, and the responses as they were.
C39_NotReadyApproveChangesNothing ==
    [][ActiveSignerNotReady
          => /\ Len(tasks') = Len(tasks)
             /\ NotReadyClicks' # NotReadyClicks
                  => /\ txStatus' = txStatus /\ txStatus = "idle"
                     /\ pendingTx' = pendingTx /\ pendingTx # NoTx
                     /\ tasks' = tasks
                     /\ calls' = calls
                     /\ relayOps' = relayOps
                     /\ responses' = responses]_vars

\* Approve was clicked with the signer not ready, and the request is still
\* pending, unanswered and untouched
C39_Witness ==
    /\ NotReadyClicks >= 1
    /\ ActiveSignerNotReady
    /\ isPending
    /\ tasks = <<>>
    /\ responses[pendingTx.id] = <<>>

\* ---------------------------------------------------------------------
\* buildUserOp from the nonce on (userop.ts:106-153) and the conversion for
\* the relay (bundler.ts:75-103).
\* ---------------------------------------------------------------------

\* viem toHex of a bigint is numberToHex
toHex(v) == numberToHex(v)

\* userop.ts:126-135: the record given to computeUserOpHash.  sender is
\* KERNEL_ACCOUNT, nonce what readContract resolved with (userop.ts:99-104).
hashedRecord(sender, callData, nonce) ==
    [ sender |-> sender,
      nonce |-> toHex(nonce),
      initCode |-> <<"0", "x">>,
      callData |-> callData,
      accountGasLimits |-> packGas(Reverse(<<1, 14, 8, 4, 8, 0>>), Reverse(<<1, 8, 6, 10, 0>>)),
      preVerificationGas |-> toHex(Reverse(<<1, 8, 6, 10, 0>>)),
      gasFees |-> packGas(Reverse(<<3, 11, 9, 10, 12, 10, 0, 0>>),
                          Reverse(<<2, 5, 4, 0, 11, 14, 4, 0, 0>>)),
      paymasterAndData |-> <<"0", "x">> ]

WithSignature(rec, signature) ==
    [f \in DOMAIN rec \cup {"signature"} |-> IF f = "signature" THEN signature ELSE rec[f]]

\* mutant: the nonce is read again for the operation that is returned
buildUserOpNonceReadAgain(sender, callData, nonce, sigBytes) ==
    [ signedHash |-> computeUserOpHash(hashedRecord(sender, callData, nonce)),
      hashed |-> hashedRecord(sender, callData, nonce),
      op |-> WithSignature(hashedRecord(sender, callData, <<1>> \o nonce), bytesToHex(sigBytes)) ]

\* userop.ts:125-153: the hash that goes to signFn, the record it was
\* computed from, and the operation returned, sigBytes being what signFn
\* resolved with
buildUserOp(sender, callData, nonce, sigBytes) ==
    [ signedHash |-> computeUserOpHash(hashedRecord(sender, callData, nonce)),
      hashed |-> hashedRecord(sender, callData, nonce),
      op |-> WithSignature(hashedRecord(sender, callData, nonce), bytesToHex(sigBytes)) ]

Null == <<"null">>

\* bundler.ts:75-103
unpackUserOp(packed) ==
    LET limits == unpackAccountGasLimits(packed.accountGasLimits).fields
        fees   == unpackGasFees(packed.gasFees).fields
    IN  [ sender |-> packed.sender,
          nonce |-> packed.nonce,
          factory |-> Null,
          factoryData |-> Null,
          callData |-> packed.callData,
          callGasLimit |-> limits[2],
          verificationGasLimit |-> limits[1],
          preVerificationGas |-> packed.preVerificationGas,
          maxFeePerGas |-> fees[2],
          maxPriorityFeePerGas |-> fees[1],
          paymaster |-> Null,
          paymasterVerificationGasLimit |-> Null,
          paymasterPostOpGasLimit |-> Null,
          paymasterData |-> Null,
          signature |-> packed.signature ]

\* what getNonce answers: 0, 1, 0x100, and sequence numbers under a nonce key
BuildNonces ==
    { <<>>, <<1>>, <<0, 0, 1>>, Rep(0, 16) \o <<1>>, <<5>> \o Rep(0, 15) \o <<1>>,
      <<15, 15>> }
BuildCallData == HashCallData \cup {<<"0", "x", "0", "0">>}
BuildSignatures == {<<>>, <<0>>, <<255>>, <<1, 171>>}

BuildCalls ==
    {[fn |-> "buildUserOp", sender |-> a, callData |-> c, nonce |-> n, sigBytes |-> g] :
        a \in HashSenders, c \in BuildCallData, n \in BuildNonces, g \in BuildSignatures}

BuildInit ==
    /\ AppInit
    /\ RemoteInit
    /\ call \in BuildCalls
    /\ ret = <<>>

\* buildUserOp resolves (userop.ts:142-152)
BuildCall ==
    /\ call.fn = "buildUserOp"
    /\ ret = <<>>
    /\ ret' = <<buildUserOp(call.sender, call.callData, call.nonce, call.sigBytes)>>
    /\ UNCHANGED <<appVars, call>>
    /\ UNCHANGED unchangedRemote

\* submitUserOp converts the operation it was given (App.tsx:281, bundler.ts:12)
SubmitBuiltCall ==
    /\ call.fn = "buildUserOp"
    /\ Len(ret) = 1
    /\ ret' = Append(ret, unpackUserOp(ret[1].op))
    /\ UNCHANGED <<appVars, call>>
    /\ UNCHANGED unchangedRemote

BuildNext ==
    \/ BuildCall
    \/ SubmitBuiltCall

BuildSpec == BuildInit /\ [][BuildNext]_vars

HashedFields ==
    {"sender", "nonce", "initCode", "callData", "accountGasLimits",
     "preVerificationGas", "gasFees", "paymasterAndData"}
RelayedUnchanged == {"sender", "nonce", "callData", "preVerificationGas", "signature"}

\* C38: every hashed field of the operation buildUserOp returns equals the
\* field given to the hash computation, so the operation's hash is the hash
\* that was signed; its nonce is the hex of the value the nonce query
\* returned; and unpackUserOp hands sender, nonce, callData,
\* preVerificationGas and signature on as they are.
C38_SubmittedIsHashed ==
    (call.fn = "buildUserOp" /\ ret # <<>>)
        => /\ \A f \in HashedFields : ret[1].op[f] = ret[1].hashed[f]
           /\ computeUserOpHash(ret[1].op) = ret[1].signedHash
           /\ ret[1].op.nonce = toHex(call.nonce)
           /\ ret[1].op.signature = bytesToHex(call.sigBytes)
           /\ Len(ret) = 2 => \A f \in RelayedUnchanged : ret[2][f] = ret[1].op[f]

\* an operation with a nonce under a nonce key and a signature was built and
\* converted for the relay
C38_Witness ==
    /\ call.fn = "buildUserOp"
    /\ Len(ret) = 2
    /\ Len(call.nonce) > 16
    /\ call.sigBytes # <<>>
    /\ ret[2].signature = ret[1].op.signature

====
